---------------------------- MODULE Spec2Model ----------------------------
(***************************************************************************)
(* TrieDBMut (trie-db/src/triedbmut.rs): the in-memory mutable Merkle-     *)
(* Patricia trie over a prefix-keyed, reference-counted backing store.     *)
(*                                                                         *)
(* Representation.  A byte is an integer 0..255, a byte string a sequence  *)
(* of bytes.  Option<T> is a sequence of length 0 (None) or 1 (Some).      *)
(* A NodeKey is the pair <<offset, bytes>> of the source, a NibbleSlice    *)
(* the record [data, offset], a Prefix the pair <<bytes, <<n, byte>>>>.    *)
(* The hasher is modelled as collision free: the hash of an encoded node   *)
(* is the one-element sequence holding that encoded node.                  *)
(***************************************************************************)
EXTENDS Integers, Sequences, FiniteSets, TLC

VARIABLES
    nodes,          \* storage.nodes: the arena
    free_indices,   \* storage.free_indices
    db,             \* the backing store handed to the facade
    root,           \* the root output variable handed to the facade
    root_handle,    \* TrieDBMut::root_handle
    death_row,      \* TrieDBMut::death_row
    use_extension,  \* L::USE_EXTENSION of the layout in use
    status,         \* "live", "dropped" (facade dropped) or "aborted" (panicked)
    mapping,        \* the key-value mapping the calls made so far stand for
    inserted,       \* the keys inserted at some time
    history,        \* "inserts", "inserts_then_root" or "other"
    last,           \* the last call: its name, arguments, result
    nops,           \* the number of calls made
    quiet           \* the last two of the calls made since the last insert or
                    \* remove: "open" (from_existing) or "commit" (commit, root, drop)

(***************************************************************************)
(* Nibble constants (NibbleOps for the half-byte radix).                   *)
(***************************************************************************)
NIBBLE_PER_BYTE == 2
NIBBLE_LEN == 16
LAST_N_IX_U8 == 1
HashLength == 32

None == <<>>
Some(x) == <<x>>
IsSome(o) == Len(o) = 1
IsNone(o) == Len(o) = 0
Unwrap(o) == o[1]

Min(a, b) == IF a < b THEN a ELSE b

NibbleIx == 0 .. (NIBBLE_LEN - 1)

(***************************************************************************)
(* Bit-level primitives of NibbleOps.                                      *)
(***************************************************************************)
RECURSIVE BitOrN(_, _, _)
BitOrN(x, y, n) ==
    IF n = 0 THEN 0
    ELSE (IF (x % 2 = 1) \/ (y % 2 = 1) THEN 1 ELSE 0)
         + 2 * BitOrN(x \div 2, y \div 2, n - 1)

BitOr(x, y) == BitOrN(x, y, 8)

\* b & !PADDING_BITMASK[ix]: keeps the ix leftmost nibbles of a byte (ix = 0 keeps nothing masked)
masked_left(ix, b) == IF ix = 1 THEN (b \div 16) * 16 ELSE 0

\* b & PADDING_BITMASK[ix]: keeps what is right of the ix leftmost nibbles
masked_right(ix, b) == IF ix = 1 THEN b % 16 ELSE b

\* into | (v << shift(ix)): put nibble v at nibble position ix of a byte
push_at_left(ix, v, into) == IF ix = 0 THEN BitOr(into, (v * 16) % 256) ELSE BitOr(into, v)

(***************************************************************************)
(* NibbleSlice: a view (data, offset) on a byte string.                    *)
(***************************************************************************)
NibbleSlice_new(data) == [data |-> data, offset |-> 0]
NibbleSlice_new_offset(data, offset) == [data |-> data, offset |-> offset]
from_stored(k) == [data |-> k[2], offset |-> k[1]]

\* an over-advanced slice (offset past the end) is outside the domain of every accessor
in_range(s) == s.offset <= Len(s.data) * NIBBLE_PER_BYTE

ns_len(s) == Len(s.data) * NIBBLE_PER_BYTE - s.offset
ns_is_empty(s) == ns_len(s) = 0

at(s, i) ==
    LET j == s.offset + i
        b == s.data[(j \div NIBBLE_PER_BYTE) + 1]
    IN IF j % NIBBLE_PER_BYTE = 0 THEN b \div 16 ELSE b % 16

mid(s, i) == [s EXCEPT !.offset = @ + i]
advance(s, i) == [s EXCEPT !.offset = @ + i]

common_prefix(a, b) ==
    LET m == Min(ns_len(a), ns_len(b))
    IN CHOOSE c \in 0 .. m :
          /\ \A i \in 0 .. (c - 1) : at(a, i) = at(b, i)
          /\ (c = m \/ at(a, c) # at(b, c))

starts_with(a, b) == common_prefix(a, b) = ns_len(b)

\* PartialEq for NibbleSlice
ns_eq(a, b) == ns_len(a) = ns_len(b) /\ starts_with(a, b)

\* the nibbles a slice views, as a sequence
Nibs(s) == [i \in 1 .. ns_len(s) |-> at(s, i - 1)]

\* the packed key of a nibble sequence: odd lengths are padded on the left of byte 0
Pack(nibs) ==
    LET n == Len(nibs)
        o == n % NIBBLE_PER_BYTE
        nb == (n + o) \div NIBBLE_PER_BYTE
    IN << o, [i \in 1 .. nb |->
                IF o = 1
                THEN (IF i = 1 THEN nibs[1] ELSE nibs[2 * i - 2] * 16 + nibs[2 * i - 1])
                ELSE nibs[2 * i - 1] * 16 + nibs[2 * i]] >>

EmptyKey == << 0, <<>> >>

to_stored(s) == Pack(Nibs(s))
to_stored_range(s, nb) ==
    IF nb >= ns_len(s) THEN to_stored(s) ELSE Pack(SubSeq(Nibs(s), 1, nb))

\* Prefix of the key left of the slice: whole bytes, then (count, padded byte)
left(s) ==
    LET split == s.offset \div NIBBLE_PER_BYTE
        ix == s.offset % NIBBLE_PER_BYTE
    IN IF ix = 0
       THEN << SubSeq(s.data, 1, split), <<0, 0>> >>
       ELSE << SubSeq(s.data, 1, split), <<ix, masked_left(ix, s.data[split + 1])>> >>

left_owned(s) == left(s)

EMPTY_PREFIX == << <<>>, <<0, 0>> >>

\* the nibble path a Prefix stands for
PrefixNibs(p) ==
    LET full == [i \in 1 .. (2 * Len(p[1])) |->
                    IF i % 2 = 1 THEN p[1][(i + 1) \div 2] \div 16
                    ELSE p[1][i \div 2] % 16]
    IN IF p[2][1] = 0 THEN full ELSE Append(full, p[2][2] \div 16)

(***************************************************************************)
(* shift_key and combine_key.                                              *)
(***************************************************************************)
shift_key(key, ofset) ==
    LET old == key[1]
        b == key[2]
        kl == Len(b)
    IN IF old > ofset
       THEN << ofset, [i \in 1 .. kl |->
                  IF i < kl THEN ((b[i] * 16) % 256) + (b[i + 1] \div 16)
                  ELSE (b[kl] * 16) % 256] >>
       ELSE IF old < ofset
       THEN LET p == Append(b, 0)
            IN << ofset, [i \in 1 .. (kl + 1) |->
                     IF i = 1 THEN p[1] \div 16
                     ELSE ((p[i - 1] * 16) % 256) + (p[i] \div 16)] >>
       ELSE key

combine_key_unmasked(start, end) ==
    LET final_ofset == (start[1] + end[1]) % NIBBLE_PER_BYTE
        shifted == shift_key(start, final_ofset)
        sl == Len(shifted[2])
        s1 == IF end[1] > 0
              THEN [i \in 1 .. sl |->
                      IF i = sl THEN BitOr(shifted[2][sl], end[2][1])
                      ELSE shifted[2][i]]
              ELSE shifted[2]
        st == IF end[1] > 0 THEN 1 ELSE 0
    IN << final_ofset, s1 \o SubSeq(end[2], st + 1, Len(end[2])) >>

combine_key(start, end) ==
    LET final_ofset == (start[1] + end[1]) % NIBBLE_PER_BYTE
        shifted == shift_key(start, final_ofset)
        sl == Len(shifted[2])
        s1 == IF end[1] > 0
              THEN [i \in 1 .. sl |->
                      IF i = sl
                      THEN BitOr(shifted[2][sl],
                                 masked_right(NIBBLE_PER_BYTE - end[1], end[2][1]))
                      ELSE shifted[2][i]]
              ELSE shifted[2]
        st == IF end[1] > 0 THEN 1 ELSE 0
    IN << final_ofset, s1 \o SubSeq(end[2], st + 1, Len(end[2])) >>

(***************************************************************************)
(* NodeHandle, Node, Stored, ChildReference.                               *)
(* Arena indices are 1-based here (index i stands for StorageHandle(i-1)). *)
(***************************************************************************)
InMemory(i) == [tag |-> "InMemory", idx |-> i, hash |-> None]
HashHandle(h) == [tag |-> "Hash", idx |-> 0, hash |-> h]

empty_children == [i \in NibbleIx |-> None]

Node_Empty ==
    [type |-> "Empty", key |-> EmptyKey, children |-> empty_children,
     child |-> None, value |-> None]
Node_Leaf(k, v) ==
    [type |-> "Leaf", key |-> k, children |-> empty_children,
     child |-> None, value |-> Some(v)]
Node_Extension(k, c) ==
    [type |-> "Extension", key |-> k, children |-> empty_children,
     child |-> Some(c), value |-> None]
Node_Branch(ch, ov) ==
    [type |-> "Branch", key |-> EmptyKey, children |-> ch,
     child |-> None, value |-> ov]
Node_NibbledBranch(k, ch, ov) ==
    [type |-> "NibbledBranch", key |-> k, children |-> ch,
     child |-> None, value |-> ov]

Stored_New(n) == [tag |-> "New", node |-> n, hash |-> None]
Stored_Cached(n, h) == [tag |-> "Cached", node |-> n, hash |-> h]

ChildReference_Hash(h) == [tag |-> "Hash", data |-> h, len |-> 0]
ChildReference_Inline(bytes, len) == [tag |-> "Inline", data |-> Some(bytes), len |-> len]

(***************************************************************************)
(* The node codec.  The bytes of an encoded node are modelled by the term  *)
(* the codec decodes them to; "Corrupt" stands for bytes it rejects.       *)
(***************************************************************************)
Enc(type, partial, children, child, value) ==
    [type |-> type, partial |-> partial, children |-> children,
     child |-> child, value |-> value]

empty_node == Enc("Empty", <<>>, empty_children, None, None)
leaf_node(partial, value) == Enc("Leaf", partial, empty_children, None, Some(value))
ext_node(partial, child) == Enc("Extension", partial, empty_children, Some(child), None)
branch_node(children, value) == Enc("Branch", <<>>, children, None, value)
branch_node_nibbled(partial, children, value) ==
    Enc("NibbledBranch", partial, children, None, value)

\* the hasher: injective on encoded nodes
HashOf(bytes) == Some(bytes)
hashed_null_node == HashOf(empty_node)

decode(bytes) == IF bytes.type = "Corrupt" THEN None ELSE Some(bytes)

RECURSIVE SumSeq(_)
SumSeq(s) == IF s = <<>> THEN 0 ELSE Head(s) + SumSeq(Tail(s))

ChildLen(oc) ==
    IF IsNone(oc) THEN 0
    ELSE 1 + (IF oc[1].tag = "Hash" THEN HashLength ELSE oc[1].len)

ValueLen(ov) == IF IsNone(ov) THEN 0 ELSE 1 + Len(ov[1])

\* the length in bytes of an encoded node
EncodedLen(e) ==
    LET pk == (Len(e.partial) + 1) \div NIBBLE_PER_BYTE
        ch == SumSeq([i \in 1 .. NIBBLE_LEN |-> ChildLen(e.children[i - 1])])
    IN CASE e.type = "Empty" -> 1
         [] e.type = "Leaf" -> 1 + pk + ValueLen(e.value)
         [] e.type = "Extension" -> 1 + pk + ChildLen(e.child)
         [] e.type = "Branch" -> 3 + ValueLen(e.value) + ch
         [] e.type = "NibbledBranch" -> 3 + pk + ValueLen(e.value) + ch
         [] OTHER -> 1

\* try_decode_hash on a child slice of an encoded node
try_decode_hash(cref) == IF cref.tag = "Hash" THEN Some(cref.data) ELSE None

(***************************************************************************)
(* The backing store: a reference count per (hash, prefix); the value of   *)
(* an entry is determined by its hash.  Entries of count 0 are dropped.    *)
(***************************************************************************)
EmptyDB == [k \in {} |-> 0]

db_rc(d, h, p) == IF <<h, p>> \in DOMAIN d THEN d[<<h, p>>] ELSE 0

db_set(d, h, p, n) ==
    IF n = 0
    THEN [k \in (DOMAIN d) \ {<<h, p>>} |-> d[k]]
    ELSE [k \in (DOMAIN d) \cup {<<h, p>>} |-> IF k = <<h, p>> THEN n ELSE d[k]]

db_contains(d, h, p) == h = hashed_null_node \/ db_rc(d, h, p) > 0

db_get(d, h, p) ==
    IF h = hashed_null_node THEN Some(empty_node)
    ELSE IF db_rc(d, h, p) > 0 THEN Some(h[1])
    ELSE None

\* a store that shares a node among the prefixes it is inserted under
db_insert_shared(d, p, bytes) ==
    IF bytes = empty_node \/ \E k \in DOMAIN d : k[1] = HashOf(bytes) /\ d[k] > 0
    THEN d
    ELSE db_set(d, HashOf(bytes), p, 1)

db_insert(d, p, bytes) ==
    IF bytes = empty_node THEN d
    ELSE db_set(d, HashOf(bytes), p, db_rc(d, HashOf(bytes), p) + 1)

db_remove(d, h, p) ==
    IF h = hashed_null_node THEN d
    ELSE db_set(d, h, p, db_rc(d, h, p) - 1)

(***************************************************************************)
(* Errors.  An operation's state record t carries err: None, or the error  *)
(* that ended it ("?" returns at once with the state as it then is).       *)
(***************************************************************************)
Error(kind, h) == Some([kind |-> kind, hash |-> h])
Failed(t) == IsSome(t.err)
Raise(t, kind, h) == [t EXCEPT !.err = Error(kind, h)]

(***************************************************************************)
(* NodeStorage.                                                            *)
(***************************************************************************)
alloc(t, stored) ==
    IF t.free_indices # <<>>
    THEN [t |-> [t EXCEPT !.nodes[Head(t.free_indices)] = stored,
                          !.free_indices = Tail(t.free_indices)],
          h |-> Head(t.free_indices)]
    ELSE [t |-> [t EXCEPT !.nodes = Append(t.nodes, stored)],
          h |-> Len(t.nodes) + 1]

destroy(t, idx) ==
    [t |-> [t EXCEPT !.free_indices = Append(t.free_indices, idx),
                     !.nodes[idx] = Stored_New(Node_Empty)],
     stored |-> t.nodes[idx]]

\* Index<&StorageHandle> for NodeStorage
storage_index(t, idx) == t.nodes[idx].node

(***************************************************************************)
(* Node::inline_or_hash, Node::from_encoded, TrieDBMut::cache.             *)
(***************************************************************************)
RECURSIVE from_encoded(_, _)
RECURSIVE dec_children(_, _, _, _)

inline_or_hash(t, cref) ==
    IF IsSome(try_decode_hash(cref))
    THEN [t |-> t, h |-> HashHandle(try_decode_hash(cref)[1])]
    ELSE LET stored(r) == alloc(r.t, Stored_New(r.node))
             handle(a) == [t |-> a.t, h |-> InMemory(a.h)]
         IN handle(stored(from_encoded(t, cref.data[1])))

dec_children(t, encoded_children, i, res) ==
    IF i = NIBBLE_LEN THEN [t |-> t, children |-> res]
    ELSE IF IsNone(encoded_children[i])
    THEN dec_children(t, encoded_children, i + 1, res)
    ELSE LET rest(r) == dec_children(r.t, encoded_children, i + 1,
                                     [res EXCEPT ![i] = Some(r.h)])
         IN rest(inline_or_hash(t, encoded_children[i][1]))

from_encoded(t, data) ==
    LET e == IF IsSome(decode(data)) THEN decode(data)[1] ELSE empty_node
    IN CASE e.type = "Empty" -> [t |-> t, node |-> Node_Empty]
         [] e.type = "Leaf" ->
              [t |-> t, node |-> Node_Leaf(Pack(e.partial), e.value[1])]
         [] e.type = "Extension" ->
              LET ext(r) == [t |-> r.t, node |-> Node_Extension(Pack(e.partial), r.h)]
              IN ext(inline_or_hash(t, e.child[1]))
         [] e.type = "Branch" ->
              LET branch(r) == [t |-> r.t, node |-> Node_Branch(r.children, e.value)]
              IN branch(dec_children(t, e.children, 0, empty_children))
         [] e.type = "NibbledBranch" ->
              LET branch(r) ==
                      [t |-> r.t,
                       node |-> Node_NibbledBranch(Pack(e.partial), r.children, e.value)]
              IN branch(dec_children(t, e.children, 0, empty_children))

cache_assumes_empty(t, hash, key) ==
    LET node_encoded == db_get(t.db, hash, key)
        stored(r) == alloc(r.t, Stored_Cached(r.node, hash))
    IN stored(from_encoded(t, IF IsNone(node_encoded) THEN empty_node
                              ELSE node_encoded[1]))

cache(t, hash, key) ==
    LET node_encoded == db_get(t.db, hash, key)
    IN IF IsNone(node_encoded)
       THEN [t |-> Raise(t, "IncompleteDatabase", hash), h |-> 0]
       ELSE LET stored(r) == alloc(r.t, Stored_Cached(r.node, hash))
            IN stored(from_encoded(t, node_encoded[1]))

(***************************************************************************)
(* Lookup::look_up: the cursor lookup against the backing store.  key is   *)
(* the full key, viewed from the node the hash designates.                 *)
(***************************************************************************)
GetOk(ov) == [res |-> "Ok", val |-> ov]
GetErr(kind) == [res |-> kind, val |-> None]
\* an error that names a hash: InvalidStateRoot(hash), IncompleteDatabase(hash)
GetErrAt(kind, hash) == [res |-> kind, val |-> hash]

RECURSIVE look_up_node(_, _, _, _)
RECURSIVE look_up_hash(_, _, _, _)

look_up_child(d, cref, partial, depth) ==
    IF IsSome(try_decode_hash(cref))
    THEN look_up_hash(d, cref.data, partial, depth + 1)
    ELSE look_up_node(d, cref.data[1], partial, depth)

look_up_hash(d, hash, partial, depth) ==
    IF ~in_range(partial) THEN GetErr("Panic")
    ELSE LET node_data == db_get(d, hash, left(partial))
         IN IF IsNone(node_data)
            THEN GetErrAt(IF depth = 0 THEN "InvalidStateRoot" ELSE "IncompleteDatabase",
                          hash)
            ELSE look_up_node(d, node_data[1], partial, depth)

look_up_node(d, data, partial, depth) ==
    IF IsNone(decode(data)) THEN GetErr("DecoderError")
    ELSE LET e == decode(data)[1]
             slice == NibbleSlice_new_offset(Pack(e.partial)[2], Pack(e.partial)[1])
         IN CASE e.type = "Empty" -> GetOk(None)
              [] e.type = "Leaf" ->
                   IF ns_eq(slice, partial) THEN GetOk(e.value) ELSE GetOk(None)
              [] e.type = "Extension" ->
                   IF starts_with(partial, slice)
                   THEN look_up_child(d, e.child[1], mid(partial, ns_len(slice)), depth)
                   ELSE GetOk(None)
              [] e.type = "Branch" ->
                   IF ns_is_empty(partial) THEN GetOk(e.value)
                   ELSE IF IsSome(e.children[at(partial, 0)])
                   THEN look_up_child(d, e.children[at(partial, 0)][1],
                                      mid(partial, 1), depth)
                   ELSE GetOk(None)
              [] e.type = "NibbledBranch" ->
                   IF ~starts_with(partial, slice) THEN GetOk(None)
                   ELSE IF ns_len(partial) = ns_len(slice) THEN GetOk(e.value)
                   ELSE IF IsSome(e.children[at(partial, ns_len(slice))])
                   THEN look_up_child(d, e.children[at(partial, ns_len(slice))][1],
                                      mid(partial, ns_len(slice) + 1), depth)
                   ELSE GetOk(None)

look_up(d, hash, key) == look_up_hash(d, hash, key, 0)

(***************************************************************************)
(* TrieDBMut::lookup: walk the arena, handing over to Lookup at a hash.    *)
(* A slice advanced past its end makes the next access fail (an overflow   *)
(* or index panic); the walk is then reported as "Panic".                  *)
(***************************************************************************)
RECURSIVE lookup(_, _, _)
lookup(t, partial, handle) ==
    IF ~in_range(partial) THEN GetErr("Panic")
    ELSE IF handle.tag = "Hash" THEN look_up(t.db, handle.hash, partial)
    ELSE LET node == storage_index(t, handle.idx)
             slice == from_stored(node.key)
         IN CASE node.type = "Empty" -> GetOk(None)
              [] node.type = "Leaf" ->
                   IF ns_eq(slice, partial) THEN GetOk(node.value) ELSE GetOk(None)
              [] node.type = "Extension" ->
                   IF starts_with(partial, slice)
                   THEN lookup(t, mid(partial, ns_len(slice)), node.child[1])
                   ELSE GetOk(None)
              [] node.type = "Branch" ->
                   IF ns_is_empty(partial) THEN GetOk(node.value)
                   ELSE IF IsSome(node.children[at(partial, 0)])
                   THEN lookup(t, mid(partial, 1), node.children[at(partial, 0)][1])
                   ELSE GetOk(None)
              [] node.type = "NibbledBranch" ->
                   IF ns_is_empty(partial) THEN GetOk(node.value)
                   ELSE IF starts_with(partial, slice)
                   THEN IF IsSome(node.children[at(partial, 0)])
                        THEN lookup(t, mid(partial, 1 + ns_len(slice)),
                                    node.children[at(partial, 0)][1])
                        ELSE GetOk(None)
                   ELSE GetOk(None)

(***************************************************************************)
(* The mutation engine.  t.key is the `key: &mut NibbleFullKey` threaded   *)
(* through the descent, t.old_val the `old_val: &mut Option<DBValue>`.     *)
(***************************************************************************)
Act(t, action, node) == [t |-> t, action |-> action, node |-> node]
ActFail(t) == Act(t, "Error", Node_Empty)

\* a faulty descent, which leaves the key where it is
key_advance_none(t, i) == t

key_advance(t, i) == [t EXCEPT !.key = advance(t.key, i)]

\* the calls of an operation in the order they are entered, each with the
\* position of the key at its entry
Enter(t, call) == [t EXCEPT !.trail = Append(@, << call, t.key.offset >>)]
set_old_val(t, ov) == [t EXCEPT !.old_val = ov]

\* a faulty death row, which removes the node from the backing store at once
death_row_insert_eager(t, hash, prefix) ==
    [t EXCEPT !.db = db_remove(@, hash, prefix)]

\* self.death_row.insert((hash, prefix))
death_row_insert(t, hash, prefix) ==
    [t EXCEPT !.death_row = @ \cup {<<hash, prefix>>}]

RECURSIVE insert_at(_, _, _)
RECURSIVE insert_inspector(_, _, _)
RECURSIVE remove_at(_, _)
RECURSIVE remove_inspector(_, _)
RECURSIVE fix(_, _, _)

\* a faulty inspect, which keeps the Cached tag of a node that was replaced
inspect_keeps_cached(stored, r) ==
    IF Failed(r.t) THEN [t |-> r.t, res |-> None]
    ELSE IF r.action = "Delete"
    THEN [t |-> IF stored.tag = "New" THEN r.t
                ELSE death_row_insert(r.t, stored.hash, left_owned(r.t.key)),
          res |-> None]
    ELSE [t |-> r.t,
          res |-> Some([stored |-> [stored EXCEPT !.node = r.node],
                        changed |-> r.action = "Replace"])]

\* inspect a node, choosing either to replace, restore, or delete it.
\* r is what the inspector closure returned for stored's node; r.t.key is the
\* key as the inspector left it.
inspect(stored, r) ==
    IF Failed(r.t) THEN [t |-> r.t, res |-> None]
    ELSE IF stored.tag = "New"
    THEN CASE r.action = "Restore" ->
                [t |-> r.t,
                 res |-> Some([stored |-> Stored_New(r.node), changed |-> FALSE])]
           [] r.action = "Replace" ->
                [t |-> r.t,
                 res |-> Some([stored |-> Stored_New(r.node), changed |-> TRUE])]
           [] r.action = "Delete" -> [t |-> r.t, res |-> None]
    ELSE CASE r.action = "Restore" ->
                [t |-> r.t,
                 res |-> Some([stored |-> Stored_Cached(r.node, stored.hash),
                               changed |-> FALSE])]
           [] r.action = "Replace" ->
                [t |-> death_row_insert(r.t, stored.hash, left_owned(r.t.key)),
                 res |-> Some([stored |-> Stored_New(r.node), changed |-> TRUE])]
           [] r.action = "Delete" ->
                [t |-> death_row_insert(r.t, stored.hash, left_owned(r.t.key)),
                 res |-> None]

AtFail(t) == [t |-> t, h |-> 0, changed |-> FALSE]

\* insert a key-value pair into the trie, creating new nodes if necessary.
insert_at(t, handle, value) ==
    LET allocated(i) ==
            IF Failed(i.t) THEN AtFail(i.t)
            ELSE IF IsNone(i.res) THEN AtFail(Raise(i.t, "Panic", None))
            ELSE LET a == alloc(i.t, i.res[1].stored)
                 IN [t |-> a.t, h |-> a.h, changed |-> i.res[1].changed]
        inspected(d) ==
            allocated(inspect(d.stored, insert_inspector(d.t, d.stored.node, value)))
        destroyed(c) ==
            IF Failed(c.t) THEN AtFail(c.t) ELSE inspected(destroy(c.t, c.h))
        te == Enter(t, "insert_at")
    IN destroyed(IF handle.tag = "InMemory" THEN [t |-> te, h |-> handle.idx]
                 ELSE cache(te, handle.hash, left(te.key)))

\* the child-routing tail shared by the Branch and NibbledBranch arms:
\* rebuild(children) is the node with the given children; t.key is already advanced
insert_route(t, children, idx, value, mk_type, mk_key, stored_value) ==
    LET mk(ch) == IF mk_type = "Branch" THEN Node_Branch(ch, stored_value)
                  ELSE Node_NibbledBranch(mk_key, ch, stored_value)
    IN IF IsSome(children[idx])
       THEN LET r == insert_at(t, children[idx][1], value)
                ch == [children EXCEPT ![idx] = Some(InMemory(r.h))]
            IN IF Failed(r.t) THEN ActFail(r.t)
               ELSE IF ~r.changed THEN Act(r.t, "Restore", mk(ch))
               ELSE Act(r.t, "Replace", mk(ch))
       ELSE LET a == alloc(t, Stored_New(Node_Leaf(to_stored(t.key), value)))
                ch == [children EXCEPT ![idx] = Some(InMemory(a.h))]
            IN Act(a.t, "Replace", mk(ch))

\* a faulty Branch arm, which drops the value of a key that ends at the branch
insert_inspector_Branch_drops_value(t, node, value) ==
    IF ns_is_empty(t.key)
    THEN Act(set_old_val(t, node.value), "Restore", node)
    ELSE insert_route(key_advance(t, 1), node.children, at(t.key, 0), value,
                      "Branch", EmptyKey, node.value)

insert_inspector_Branch(t, node, value) ==
    LET partial == t.key
    IN IF ns_is_empty(partial)
       THEN LET unchanged == node.value = Some(value)
                branch == Node_Branch(node.children, Some(value))
                t1 == set_old_val(t, node.value)
            IN IF unchanged THEN Act(t1, "Restore", branch)
               ELSE Act(t1, "Replace", branch)
       ELSE LET idx == at(partial, 0)
            IN insert_route(key_advance(t, 1), node.children, idx, value,
                            "Branch", EmptyKey, node.value)

insert_inspector_NibbledBranch(t, node, value) ==
    LET partial == t.key
        existing_key == from_stored(node.key)
        cp == common_prefix(partial, existing_key)
    IN IF cp = ns_len(existing_key) /\ cp = ns_len(partial)
       THEN LET unchanged == node.value = Some(value)
                branch == Node_NibbledBranch(to_stored(existing_key),
                                             node.children, Some(value))
                t1 == set_old_val(t, node.value)
            IN IF unchanged THEN Act(t1, "Restore", branch)
               ELSE Act(t1, "Replace", branch)
       ELSE IF cp < ns_len(existing_key)
       THEN \* insert a branch value in between
            LET low == Node_NibbledBranch(to_stored(mid(existing_key, cp + 1)),
                                          node.children, node.value)
                ix == at(existing_key, cp)
                a == alloc(t, Stored_New(low))
                children == [empty_children EXCEPT ![ix] = Some(InMemory(a.h))]
            IN IF ns_len(partial) - cp = 0
               THEN Act(a.t, "Replace",
                        Node_NibbledBranch(to_stored_range(existing_key, cp),
                                           children, Some(value)))
               ELSE LET ix2 == at(partial, cp)
                        l == alloc(a.t, Stored_New(
                                 Node_Leaf(to_stored(mid(partial, cp + 1)), value)))
                        children2 == [children EXCEPT ![ix2] = Some(InMemory(l.h))]
                    IN Act(l.t, "Replace",
                           Node_NibbledBranch(to_stored_range(existing_key, cp),
                                              children2, None))
       ELSE \* append after cp == existing_key and partial > cp
            LET idx == at(partial, cp)
            IN insert_route(key_advance(t, cp + 1), node.children, idx, value,
                            "NibbledBranch", to_stored(existing_key), node.value)

\* `self.insert_inspector(n, key, value, old_val)?.unwrap_node()` wrapped by make(node)
insert_inspector_Leaf(t, node, value) ==
    LET partial == t.key
        encoded == node.key
        stored_value == node.value[1]
        existing_key == from_stored(encoded)
        cp == common_prefix(partial, existing_key)
    IN IF cp = ns_len(existing_key) /\ cp = ns_len(partial)
       THEN \* equivalent leaf.
            LET unchanged == stored_value = value
                t1 == set_old_val(t, Some(stored_value))
            IN IF unchanged THEN Act(t1, "Restore", Node_Leaf(encoded, value))
               ELSE Act(t1, "Replace", Node_Leaf(encoded, value))
       ELSE IF (t.use_extension /\ cp = 0)
               \/ (~t.use_extension /\ cp < ns_len(existing_key))
       THEN \* one of us isn't empty: transmute to branch here
            LET b == IF t.use_extension /\ ns_is_empty(existing_key)
                     THEN [t |-> t, node |-> Node_Branch(empty_children, Some(stored_value))]
                     ELSE LET idx == at(existing_key, cp)
                              new_leaf == Node_Leaf(to_stored(mid(existing_key, cp + 1)),
                                                    stored_value)
                              a == alloc(t, Stored_New(new_leaf))
                              children == [empty_children EXCEPT
                                              ![idx] = Some(InMemory(a.h))]
                          IN IF t.use_extension
                             THEN [t |-> a.t, node |-> Node_Branch(children, None)]
                             ELSE [t |-> a.t,
                                   node |-> Node_NibbledBranch(
                                       to_stored_range(partial, cp), children, None)]
                r == insert_inspector(b.t, b.node, value)
            IN IF Failed(r.t) THEN ActFail(r.t) ELSE Act(r.t, "Replace", r.node)
       ELSE IF ~t.use_extension
       THEN \* fully-shared prefix: make a stub branch and augment it
            LET branch == Node_NibbledBranch(to_stored(existing_key), empty_children,
                                             Some(stored_value))
                r == insert_inspector(t, branch, value)
            IN IF Failed(r.t) THEN ActFail(r.t) ELSE Act(r.t, "Replace", r.node)
       ELSE IF cp = ns_len(existing_key)
       THEN \* fully-shared prefix for an extension: a stub branch and an extension
            LET branch == Node_Branch(empty_children, Some(stored_value))
                r == insert_inspector(key_advance(t, cp), branch, value)
                a == alloc(r.t, Stored_New(r.node))
            IN IF Failed(r.t) THEN ActFail(r.t)
               ELSE Act(a.t, "Replace",
                        Node_Extension(to_stored(existing_key), InMemory(a.h)))
       ELSE \* partially-shared prefix for an extension
            LET low == Node_Leaf(to_stored(mid(existing_key, cp)), stored_value)
                r == insert_inspector(key_advance(t, cp), low, value)
                a == alloc(r.t, Stored_New(r.node))
            IN IF Failed(r.t) THEN ActFail(r.t)
               ELSE Act(a.t, "Replace",
                        Node_Extension(to_stored_range(existing_key, cp), InMemory(a.h)))

insert_inspector_Extension(t, node, value) ==
    LET partial == t.key
        child_branch == node.child[1]
        existing_key == from_stored(node.key)
        cp == common_prefix(partial, existing_key)
    IN IF cp = 0
       THEN \* partial isn't empty: make a branch here
            IF ns_is_empty(existing_key) THEN ActFail(Raise(t, "Panic", None))
            ELSE
            LET idx == at(existing_key, 0)
                c == IF ns_len(existing_key) = 1
                     THEN [t |-> t, h |-> child_branch]
                     ELSE LET ext == Node_Extension(to_stored(mid(existing_key, 1)),
                                                    child_branch)
                              a == alloc(t, Stored_New(ext))
                          IN [t |-> a.t, h |-> InMemory(a.h)]
                children == [empty_children EXCEPT ![idx] = Some(c.h)]
                r == insert_inspector(c.t, Node_Branch(children, None), value)
            IN IF Failed(r.t) THEN ActFail(r.t) ELSE Act(r.t, "Replace", r.node)
       ELSE IF cp = ns_len(existing_key)
       THEN \* fully-shared prefix: insert into the child node.
            LET r == insert_at(key_advance(t, cp), child_branch, value)
                new_ext == Node_Extension(to_stored(existing_key), InMemory(r.h))
            IN IF Failed(r.t) THEN ActFail(r.t)
               ELSE IF r.changed THEN Act(r.t, "Replace", new_ext)
               ELSE Act(r.t, "Restore", new_ext)
       ELSE \* partially-shared.
            LET low == Node_Extension(to_stored(mid(existing_key, cp)), child_branch)
                r == insert_inspector(key_advance(t, cp), low, value)
                a == alloc(r.t, Stored_New(r.node))
            IN IF Failed(r.t) THEN ActFail(r.t)
               ELSE Act(a.t, "Replace",
                        Node_Extension(to_stored_range(existing_key, cp), InMemory(a.h)))

\* the insertion inspector.
insert_inspector(t, node, value) ==
    LET te == Enter(t, "insert_inspector")
    IN CASE node.type = "Empty" ->
              Act(te, "Replace", Node_Leaf(to_stored(te.key), value))
         [] node.type = "Branch" -> insert_inspector_Branch(te, node, value)
         [] node.type = "NibbledBranch" -> insert_inspector_NibbledBranch(te, node, value)
         [] node.type = "Leaf" -> insert_inspector_Leaf(te, node, value)
         [] node.type = "Extension" -> insert_inspector_Extension(te, node, value)

(***************************************************************************)
(* Removal.                                                                *)
(***************************************************************************)
RmFail(t) == [t |-> t, res |-> None]

\* Remove a node from the trie based on key.
remove_at(t, handle) ==
    LET allocated(i) ==
            IF Failed(i.t) THEN RmFail(i.t)
            ELSE IF IsNone(i.res) THEN [t |-> i.t, res |-> None]
            ELSE LET a == alloc(i.t, i.res[1].stored)
                 IN [t |-> a.t,
                     res |-> Some([h |-> a.h, changed |-> i.res[1].changed])]
        inspected(d) ==
            allocated(inspect(d.stored, remove_inspector(d.t, d.stored.node)))
        destroyed(c) ==
            IF Failed(c.t) THEN RmFail(c.t) ELSE inspected(destroy(c.t, c.h))
        te == Enter(t, "remove_at")
    IN destroyed(IF handle.tag = "InMemory" THEN [t |-> te, h |-> handle.idx]
                 ELSE cache(te, handle.hash, left(te.key)))

\* Action::Replace(self.fix(node, key)?)
replace_fixed(t, node, key) ==
    LET replace(f) == IF Failed(f.t) THEN ActFail(f.t) ELSE Act(f.t, "Replace", f.node)
    IN replace(fix(t, node, key))

\* the child-routing tail shared by the Branch and NibbledBranch arms of remove:
\* adv is what the key advances by before descending into children[idx].
\* "Fix" marks a node the arm hands to Action::Replace(self.fix(node, prefix)?)
remove_route(t, node, idx, adv) ==
    LET mk(ch) == IF node.type = "Branch" THEN Node_Branch(ch, node.value)
                  ELSE Node_NibbledBranch(node.key, ch, node.value)
    IN IF IsSome(node.children[idx])
       THEN LET taken == [node.children EXCEPT ![idx] = None]
                removed(r) ==
                    IF Failed(r.t) THEN ActFail(r.t)
                    ELSE IF IsSome(r.res)
                    THEN LET branch ==
                                 mk([taken EXCEPT ![idx] = Some(InMemory(r.res[1].h))])
                         IN IF r.res[1].changed THEN Act(r.t, "Replace", branch)
                            ELSE Act(r.t, "Restore", branch)
                    ELSE \* the child we took was deleted. the node may need fixing.
                         Act(r.t, "Fix", mk(taken))
            IN removed(remove_at(key_advance(t, adv), node.children[idx][1]))
       ELSE \* no change needed.
            Act(t, "Restore", node)

\* the arms of the removal inspector; an arm ending in
\* Action::Replace(self.fix(node, key)?) returns the node marked "Fix"
remove_inspector_arms(t, node) ==
    LET partial == t.key
        empty == ns_is_empty(partial)
    IN CASE node.type = "Empty" -> Act(t, "Delete", Node_Empty)
         [] node.type = "Branch" /\ empty ->
              IF IsNone(node.value) THEN Act(t, "Restore", node)
              ELSE \* always replace since we took the value out.
                   Act(set_old_val(t, node.value), "Fix",
                                 Node_Branch(node.children, None))
         [] node.type = "NibbledBranch" /\ empty ->
              IF IsNone(node.value) THEN Act(t, "Restore", node)
              ELSE Act(set_old_val(t, node.value), "Fix",
                                 Node_NibbledBranch(node.key, node.children, None))
         [] node.type = "Branch" /\ ~empty ->
              remove_route(t, node, at(partial, 0), 1)
         [] node.type = "NibbledBranch" /\ ~empty ->
              LET existing_key == from_stored(node.key)
                  cp == common_prefix(existing_key, partial)
                  existing_len == ns_len(existing_key)
              IN IF cp = existing_len /\ cp = ns_len(partial)
                 THEN \* replace val
                      IF IsSome(node.value)
                      THEN Act(set_old_val(t, node.value), "Fix",
                               Node_NibbledBranch(node.key, node.children, None))
                      ELSE Act(t, "Restore",
                               Node_NibbledBranch(node.key, node.children, None))
                 ELSE IF cp < existing_len
                 THEN \* partway through an extension -- nothing to do here.
                      Act(t, "Restore", node)
                 ELSE \* cp == existing_len && cp < partial.len() : check children
                      remove_route(t, node, at(partial, cp), cp + 1)
         [] node.type = "Leaf" ->
              IF ns_eq(from_stored(node.key), partial)
              THEN \* this is the node we were looking for. Let's delete it.
                   Act(set_old_val(t, node.value), "Delete", Node_Empty)
              ELSE Act(t, "Restore", node)
         [] node.type = "Extension" ->
              LET existing_key == from_stored(node.key)
                  cp == common_prefix(existing_key, partial)
                  existing_len == ns_len(existing_key)
              IN IF cp = existing_len
                 THEN \* try to remove from the child branch.
                      LET removed(r) ==
                              IF Failed(r.t) THEN ActFail(r.t)
                              ELSE IF IsSome(r.res)
                              THEN LET new_child == InMemory(r.res[1].h)
                                   IN IF r.res[1].changed
                                      THEN Act(r.t, "Fix",
                                               Node_Extension(node.key, new_child))
                                      ELSE Act(r.t, "Restore",
                                               Node_Extension(node.key, new_child))
                              ELSE \* the whole branch got deleted.
                                   Act(r.t, "Delete", Node_Empty)
                      IN removed(remove_at(key_advance(t, cp), node.child[1]))
                 ELSE \* partway through an extension -- nothing to do here.
                      Act(t, "Restore", node)

\* the removal inspector: its arms, and the one call of fix they end in, made
\* with the key as it was on entry
remove_inspector(t, node) ==
    LET fixed(a) == IF a.action = "Fix" THEN replace_fixed(a.t, a.node, t.key) ELSE a
    IN fixed(remove_inspector_arms(t, node))

(***************************************************************************)
(* fix: repair a node which may be in an invalid state.                    *)
(***************************************************************************)
FixOk(t, node) == [t |-> t, node |-> node]
FixFail(t) == [t |-> t, node |-> Node_Empty]

\* a faulty scan, which finds no child
used_index_none(children) == <<"None", 0>>

\* UsedIndex: <<"None">>, <<"One", a>> or <<"Many">>
used_index(children) ==
    LET used == {i \in NibbleIx : IsSome(children[i])}
    IN IF used = {} THEN <<"None", 0>>
       ELSE IF Cardinality(used) = 1 THEN <<"One", CHOOSE i \in used : TRUE>>
       ELSE <<"Many", 0>>

\* the prefix of the child at branch index a below the position kc:
\* kc.left() with the nibble a pushed at its end
child_prefix(kc, a) ==
    LET l == left(kc)
        st == l[1]
        i == l[2][1]
        v == l[2][2]
    IN IF i = 0 THEN << st, <<1, push_at_left(0, a, 0)>> >>
       ELSE IF i = LAST_N_IX_U8
       THEN << Append(st, BitOr(masked_left(LAST_N_IX_U8, v), a)), <<0, 0>> >>
       ELSE << st, <<i, push_at_left(i, a, v)>> >>

\* the child of a collapsing node, taken out of the arena (loaded first if hashed)
take_child(t, child, child_pref) ==
    LET taken(c) == IF Failed(c.t) THEN [t |-> c.t, stored |-> Stored_New(Node_Empty)]
                    ELSE destroy(c.t, c.h)
    IN taken(IF child.tag = "InMemory" THEN [t |-> t, h |-> child.idx]
             ELSE cache(t, child.hash, child_pref))

fix_Branch(t, node, key) ==
    LET u == used_index(node.children)
    IN IF u[1] = "None" /\ IsNone(node.value)
       THEN \* panic!("Branch with no subvalues. Something went wrong.")
            FixFail(Raise(t, "Panic", Some("Branch with no subvalues")))
       ELSE IF u[1] = "One" /\ IsNone(node.value)
       THEN \* only one onward node. make an extension.
            LET a == u[2]
                new_partial == to_stored(NibbleSlice_new_offset(<<a>>, 1))
                child == node.children[a][1]
            IN fix(t, Node_Extension(new_partial, child), key)
       ELSE IF u[1] = "None"
       THEN \* make a leaf.
            FixOk(t, Node_Leaf(to_stored(NibbleSlice_new(<<>>)), node.value[1]))
       ELSE \* all is well.
            FixOk(t, node)

\* a faulty fix of a NibbledBranch, which collapses it as a plain Branch
fix_NibbledBranch_as_Branch(t, node, key) == fix_Branch(t, node, key)

fix_NibbledBranch(t, node, key) ==
    LET u == used_index(node.children)
        enc_nibble == node.key
    IN IF u[1] = "None" /\ IsNone(node.value)
       THEN \* panic!("Branch with no subvalues. Something went wrong.")
            FixFail(Raise(t, "Panic", Some("Branch with no subvalues")))
       ELSE IF u[1] = "One" /\ IsNone(node.value)
       THEN \* only one onward node. use child instead
            LET a == u[2]
                child == node.children[a][1]
                kc == advance(key, (Len(enc_nibble[2]) * NIBBLE_PER_BYTE) - enc_nibble[1])
            IN IF ~in_range(kc) THEN FixFail(Raise(t, "Panic", None))
               ELSE
               LET child_pref == child_prefix(kc, a)
                   combined(child_key) ==
                       combine_key(combine_key(enc_nibble, <<NIBBLE_PER_BYTE - 1, <<a>>>>),
                                   child_key)
                   merged(s, t1, child_node) ==
                       IF Failed(s.t) THEN FixFail(s.t)
                       ELSE IF child_node.type = "Leaf"
                       THEN FixOk(t1, Node_Leaf(combined(child_node.key),
                                                child_node.value[1]))
                       ELSE IF child_node.type = "NibbledBranch"
                       THEN FixOk(t1, Node_NibbledBranch(combined(child_node.key),
                                                         child_node.children,
                                                         child_node.value))
                       ELSE \* unreachable!()
                            FixFail(Raise(t1, "Panic", Some("unreachable")))
                   taken(s) ==
                       merged(s,
                              IF s.stored.tag = "Cached"
                              THEN death_row_insert(s.t, s.stored.hash, child_pref)
                              ELSE s.t,
                              s.stored.node)
               IN taken(take_child(t, child, child_pref))
       ELSE IF u[1] = "None"
       THEN \* make a leaf.
            FixOk(t, Node_Leaf(enc_nibble, node.value[1]))
       ELSE \* all is well.
            FixOk(t, node)

fix_Extension(t, node, key) ==
    LET partial == node.key
        child == node.child[1]
    IN IF Len(partial[2]) = 0 THEN FixFail(Raise(t, "Panic", None))
       ELSE
       LET a == partial[2][Len(partial[2])] % 16
           kc == advance(key, (Len(partial[2]) * NIBBLE_PER_BYTE) - partial[1] - 1)
       IN IF ~in_range(kc) THEN FixFail(Raise(t, "Panic", None))
          ELSE
          LET child_pref == child_prefix(kc, a)
              merged(s, t1, child_node) ==
                  IF Failed(s.t) THEN FixFail(s.t)
                  ELSE IF child_node.type = "Extension"
                  THEN \* combine with node below.
                       fix(t1, Node_Extension(combine_key(partial, child_node.key),
                                              child_node.child[1]), key)
                  ELSE IF child_node.type = "Leaf"
                  THEN \* combine with node below.
                       FixOk(t1, Node_Leaf(combine_key(partial, child_node.key),
                                           child_node.value[1]))
                  ELSE \* restoring extension: reallocate the child node.
                       LET a2 == alloc(s.t, s.stored)
                       IN FixOk(a2.t, Node_Extension(partial, InMemory(a2.h)))
              taken(s) ==
                  merged(s,
                         IF s.stored.tag = "Cached"
                         THEN death_row_insert(s.t, s.stored.hash, child_pref)
                         ELSE s.t,
                         s.stored.node)
          IN taken(take_child(t, child, child_pref))

\* a faulty fix, which leaves the node as it is
fix_keeps_node(t, node, key) == FixOk(t, node)

fix(t, node, key) ==
    LET te == Enter(t, "fix")
    IN CASE node.type = "Branch" -> fix_Branch(te, node, key)
         [] node.type = "NibbledBranch" -> fix_NibbledBranch(te, node, key)
         [] node.type = "Extension" -> fix_Extension(te, node, key)
         [] OTHER -> FixOk(te, node)

(***************************************************************************)
(* NibbleVec, as the sequence of nibbles it holds.                         *)
(***************************************************************************)
NibbleVec_new == <<>>

\* a faulty append, which leaves out the branch index
append_slice_only(k, o_sl, o_ix) ==
    IF IsSome(o_sl) THEN k \o Nibs(o_sl[1]) ELSE k

\* append the partial of o_sl (if any), then the nibble o_ix (if any)
append_slice_nibble(k, o_sl, o_ix) ==
    LET k1 == IF IsSome(o_sl) THEN k \o Nibs(o_sl[1]) ELSE k
    IN IF IsSome(o_ix) THEN Append(k1, o_ix[1]) ELSE k1

as_prefix(k) ==
    LET split == Len(k) \div NIBBLE_PER_BYTE
        pos == Len(k) % NIBBLE_PER_BYTE
        inner == Pack(IF pos = 0 THEN k ELSE Append(k, 0))[2]
    IN IF pos = 0 THEN << SubSeq(inner, 1, split), <<0, 0>> >>
       ELSE << SubSeq(inner, 1, split), <<pos, masked_left(pos, inner[split + 1])>> >>

(***************************************************************************)
(* Node::into_encoded with commit_child as its child callback.  k is the   *)
(* NibbleVec holding the path of the node being encoded; the calls         *)
(* append_slice_nibble .. drop_lasts bracket each child.                   *)
(***************************************************************************)
RECURSIVE into_encoded(_, _, _)
RECURSIVE commit_child(_, _, _)
RECURSIVE enc_children(_, _, _, _, _, _)

\* children.iter_mut().map(Option::take).enumerate().map(child_cb), in index order
enc_children(t, children, o_sl, k, i, res) ==
    IF i = NIBBLE_LEN THEN [t |-> t, children |-> res]
    ELSE IF IsNone(children[i]) THEN enc_children(t, children, o_sl, k, i + 1, res)
    ELSE LET rest(c) == enc_children(c.t, children, o_sl, k, i + 1,
                                     [res EXCEPT ![i] = Some(c.cr)])
         IN rest(commit_child(t, children[i][1],
                              append_slice_nibble(k, o_sl, Some(i))))

into_encoded(t, node, k) ==
    LET pr == NibbleSlice_new_offset(node.key[2], node.key[1])
    IN CASE node.type = "Empty" -> [t |-> t, encoded |-> empty_node]
         [] node.type = "Leaf" ->
              [t |-> t, encoded |-> leaf_node(Nibs(pr), node.value[1])]
         [] node.type = "Extension" ->
              LET ext(c) == [t |-> c.t, encoded |-> ext_node(Nibs(pr), c.cr)]
              IN ext(commit_child(t, node.child[1],
                                  append_slice_nibble(k, Some(pr), None)))
         [] node.type = "Branch" ->
              LET branch(r) == [t |-> r.t,
                                encoded |-> branch_node(r.children, node.value)]
              IN branch(enc_children(t, node.children, None, k, 0, empty_children))
         [] node.type = "NibbledBranch" ->
              LET branch(r) ==
                      [t |-> r.t,
                       encoded |-> branch_node_nibbled(Nibs(pr), r.children, node.value)]
              IN branch(enc_children(t, node.children, Some(pr), k, 0, empty_children))

\* a faulty commit_child, which writes and references by hash a node of any length
commit_child_hashes_all(t, handle, prefix) ==
    IF handle.tag = "Hash" THEN [t |-> t, cr |-> ChildReference_Hash(handle.hash)]
    ELSE LET d == destroy(t, handle.idx)
         IN IF d.stored.tag = "Cached"
            THEN [t |-> d.t, cr |-> ChildReference_Hash(d.stored.hash)]
            ELSE LET child_ref(e) ==
                         [t |-> [e.t EXCEPT !.db = db_insert(@, as_prefix(prefix),
                                                             e.encoded)],
                          cr |-> ChildReference_Hash(HashOf(e.encoded))]
                 IN child_ref(into_encoded(d.t, d.stored.node, prefix))

commit_child(t, handle, prefix) ==
    IF handle.tag = "Hash" THEN [t |-> t, cr |-> ChildReference_Hash(handle.hash)]
    ELSE LET d == destroy(t, handle.idx)
         IN IF d.stored.tag = "Cached"
            THEN [t |-> d.t, cr |-> ChildReference_Hash(d.stored.hash)]
            ELSE LET child_ref(e) ==
                         IF EncodedLen(e.encoded) >= HashLength
                         THEN [t |-> [e.t EXCEPT !.db = db_insert(@, as_prefix(prefix),
                                                                  e.encoded)],
                               cr |-> ChildReference_Hash(HashOf(e.encoded))]
                         ELSE \* it's a small value, so we cram it into a hash and
                              \* tag with length
                              [t |-> e.t,
                               cr |-> ChildReference_Inline(e.encoded,
                                                            EncodedLen(e.encoded))]
                 IN child_ref(into_encoded(d.t, d.stored.node, prefix))

\* for (hash, prefix) in self.death_row.drain() { self.db.remove(..) }
RECURSIVE drain_death_row(_, _)
drain_death_row(d, row) ==
    IF row = {} THEN d
    ELSE LET e == CHOOSE x \in row : TRUE
         IN drain_death_row(db_remove(d, e[1], e[2]), row \ {e})

\* a faulty commit, which writes the root node again when nothing is staged
commit_rewrites_root(t) ==
    LET t0 == [t EXCEPT !.db = drain_death_row(t.db, t.death_row),
                        !.death_row = {}]
    IN IF t0.root_handle.tag = "Hash"
       THEN [t0 EXCEPT !.db = db_set(@, t0.root, EMPTY_PREFIX,
                                     db_rc(@, t0.root, EMPTY_PREFIX) + 1)]
       ELSE LET d == destroy(t0, t0.root_handle.idx)
            IN IF d.stored.tag = "New"
               THEN LET rooted(e) ==
                            [e.t EXCEPT !.db = db_insert(@, EMPTY_PREFIX, e.encoded),
                                        !.root = HashOf(e.encoded),
                                        !.root_handle = HashHandle(HashOf(e.encoded))]
                    IN rooted(into_encoded(d.t, d.stored.node, NibbleVec_new))
               ELSE \* probably won't happen, but update the root and move on.
                    LET a == alloc(d.t, d.stored)
                    IN [a.t EXCEPT !.root = d.stored.hash,
                                   !.root_handle = InMemory(a.h)]

\* a faulty commit, which returns at once for a Hash root handle and leaves
\* the death row as it is
commit_skips_drain(t) ==
    IF t.root_handle.tag = "Hash" THEN t ELSE commit_rewrites_root(t)

commit(t) ==
    LET t0 == [t EXCEPT !.db = drain_death_row(t.db, t.death_row),
                        !.death_row = {}]
    IN IF t0.root_handle.tag = "Hash" THEN t0  \* no changes necessary.
       ELSE LET d == destroy(t0, t0.root_handle.idx)
            IN IF d.stored.tag = "New"
               THEN LET rooted(e) ==
                            [e.t EXCEPT !.db = db_insert(@, EMPTY_PREFIX, e.encoded),
                                        !.root = HashOf(e.encoded),
                                        !.root_handle = HashHandle(HashOf(e.encoded))]
                    IN rooted(into_encoded(d.t, d.stored.node, NibbleVec_new))
               ELSE \* probably won't happen, but update the root and move on.
                    LET a == alloc(d.t, d.stored)
                    IN [a.t EXCEPT !.root = d.stored.hash,
                                   !.root_handle = InMemory(a.h)]

(***************************************************************************)
(* The TrieMut facade.  A facade operation takes the trie's state record   *)
(* and returns the state after it with the operation's result.             *)
(***************************************************************************)
Trie(n, f, d, r, rh, dr, ext) ==
    [nodes |-> n, free_indices |-> f, db |-> d, root |-> r, root_handle |-> rh,
     death_row |-> dr, use_extension |-> ext,
     key |-> NibbleSlice_new(<<>>), old_val |-> None, err |-> None, trail |-> <<>>]

Ret(t) == IF Failed(t) THEN GetErrAt(t.err[1].kind, t.err[1].hash)
          ELSE GetOk(t.old_val)

\* the state an operation leaves behind, its scratch fields cleared
Settled(t) ==
    [t EXCEPT !.key = NibbleSlice_new(<<>>), !.old_val = None, !.err = None]

\* TrieDBMut::new
TrieDBMut_new(d, ext) ==
    Trie(<<>>, <<>>, d, hashed_null_node, HashHandle(hashed_null_node), {}, ext)

\* a faulty from_existing, which like new sets the root variable to the null node
from_existing_clears_root(d, r, ext) ==
    IF ~db_contains(d, r, EMPTY_PREFIX)
    THEN [t |-> Trie(<<>>, <<>>, d, r, HashHandle(r), {}, ext),
          ret |-> GetErrAt("InvalidStateRoot", r)]
    ELSE [t |-> Trie(<<>>, <<>>, d, hashed_null_node, HashHandle(r), {}, ext),
          ret |-> GetOk(None)]

from_existing_unchecked(d, r, ext) ==
    [t |-> Trie(<<>>, <<>>, d, r, HashHandle(r), {}, ext), ret |-> GetOk(None)]

\* TrieDBMut::from_existing
from_existing(d, r, ext) ==
    IF ~db_contains(d, r, EMPTY_PREFIX)
    THEN [t |-> Trie(<<>>, <<>>, d, r, HashHandle(r), {}, ext),
          ret |-> GetErrAt("InvalidStateRoot", r)]
    ELSE [t |-> Trie(<<>>, <<>>, d, r, HashHandle(r), {}, ext), ret |-> GetOk(None)]

\* TrieMut::root
TrieMut_root(t) == commit(t)

is_empty(t) ==
    IF t.root_handle.tag = "Hash" THEN t.root_handle.hash = hashed_null_node
    ELSE storage_index(t, t.root_handle.idx).type = "Empty"

get(t, key) == lookup(t, NibbleSlice_new(key), t.root_handle)

remove(t, key) ==
    LET t0 == [t EXCEPT !.key = NibbleSlice_new(key), !.old_val = None, !.trail = <<>>]
        removed(r) ==
            IF Failed(r.t) THEN [t |-> Settled(r.t), ret |-> Ret(r.t)]
            ELSE IF IsSome(r.res)
            THEN [t |-> Settled([r.t EXCEPT !.root_handle = InMemory(r.res[1].h)]),
                  ret |-> Ret(r.t)]
            ELSE [t |-> Settled([r.t EXCEPT
                                    !.root_handle = HashHandle(hashed_null_node),
                                    !.root = hashed_null_node]),
                  ret |-> Ret(r.t)]
    IN removed(remove_at(t0, t.root_handle))

\* a faulty insert, which lacks the early return for an empty value
insert_stores_empty(t, key, value) ==
    LET t0 == [t EXCEPT !.key = NibbleSlice_new(key), !.old_val = None, !.trail = <<>>]
        inserted_at(r) ==
            IF Failed(r.t) THEN [t |-> Settled(r.t), ret |-> Ret(r.t)]
            ELSE [t |-> Settled([r.t EXCEPT !.root_handle = InMemory(r.h)]),
                  ret |-> Ret(r.t)]
    IN inserted_at(insert_at(t0, t.root_handle, value))

\* TrieMut::insert
insert(t, key, value) ==
    IF value = <<>> THEN remove(t, key)
    ELSE LET t0 == [t EXCEPT !.key = NibbleSlice_new(key), !.old_val = None, !.trail = <<>>]
             inserted_at(r) ==
                 IF Failed(r.t) THEN [t |-> Settled(r.t), ret |-> Ret(r.t)]
                 ELSE [t |-> Settled([r.t EXCEPT !.root_handle = InMemory(r.h)]),
                       ret |-> Ret(r.t)]
         IN inserted_at(insert_at(t0, t.root_handle, value))

\* Drop for TrieDBMut
drop(t) == commit(t)

(***************************************************************************)
(* The reference trie root: the canonical trie of a set of pairs           *)
(* <<nibbles of the key, value>>, built top down.                          *)
(***************************************************************************)
KeyNibs(key) == Nibs(NibbleSlice_new(key))

ref_child(e) ==
    IF EncodedLen(e) >= HashLength THEN ChildReference_Hash(HashOf(e))
    ELSE ChildReference_Inline(e, EncodedLen(e))

\* the length of the longest prefix the keys of all the pairs share
shared_prefix_len(pairs) ==
    LET p0 == CHOOSE p \in pairs : TRUE
        ok(n) == \A p \in pairs :
                    Len(p[1]) >= n /\ SubSeq(p[1], 1, n) = SubSeq(p0[1], 1, n)
    IN CHOOSE n \in 0 .. Len(p0[1]) : ok(n) /\ (n = Len(p0[1]) \/ ~ok(n + 1))

strip(pairs, n) == { <<SubSeq(p[1], n + 1, Len(p[1])), p[2]>> : p \in pairs }

RECURSIVE build_trie(_, _)

ref_branch_children(pairs, ext) ==
    [i \in NibbleIx |->
        LET sub == { p \in pairs : p[1] # <<>> /\ p[1][1] = i }
        IN IF sub = {} THEN None
           ELSE Some(ref_child(build_trie(strip(sub, 1), ext)))]

ref_branch_value(pairs) ==
    IF \E p \in pairs : p[1] = <<>>
    THEN Some((CHOOSE p \in pairs : p[1] = <<>>)[2])
    ELSE None

build_trie(pairs, ext) ==
    IF pairs = {} THEN empty_node
    ELSE IF Cardinality(pairs) = 1
    THEN LET p == CHOOSE x \in pairs : TRUE IN leaf_node(p[1], p[2])
    ELSE LET cp == shared_prefix_len(pairs)
             p0 == CHOOSE p \in pairs : TRUE
             shared == SubSeq(p0[1], 1, cp)
             rest == strip(pairs, cp)
         IN IF ext
            THEN IF cp > 0
                 THEN ext_node(shared, ref_child(build_trie(rest, ext)))
                 ELSE branch_node(ref_branch_children(pairs, ext),
                                  ref_branch_value(pairs))
            ELSE branch_node_nibbled(shared, ref_branch_children(rest, ext),
                                     ref_branch_value(rest))

\* the pairs a key-value mapping holds
PairsOf(m) == { <<KeyNibs(k), m[k][1]>> : k \in {x \in DOMAIN m : IsSome(m[x])} }

reference_trie_root(m, ext) == HashOf(build_trie(PairsOf(m), ext))

(***************************************************************************)
(* A walk of the committed trie in the backing store, as a read-only trie  *)
(* makes it: the pairs found, the hashed nodes visited with the prefix     *)
(* each is fetched under, and whether some hash reference dangles.         *)
(***************************************************************************)
Walked(pairs, hashed, dangling) ==
    [pairs |-> pairs, hashed |-> hashed, dangling |-> dangling]

JoinWalks(rs) ==
    Walked(UNION {r.pairs : r \in rs}, UNION {r.hashed : r \in rs},
           \E r \in rs : r.dangling)

RECURSIVE walk_node(_, _, _)

walk_hash(d, h, path) ==
    IF h = hashed_null_node THEN Walked({}, {}, FALSE)
    ELSE IF db_rc(d, h, as_prefix(path)) > 0
    THEN JoinWalks({ walk_node(d, h[1], path),
                     Walked({}, {<<h, as_prefix(path)>>}, FALSE) })
    ELSE Walked({}, {}, TRUE)

walk_child(d, cref, path) ==
    IF cref.tag = "Hash" THEN walk_hash(d, cref.data, path)
    ELSE walk_node(d, cref.data[1], path)

walk_node(d, e, path) ==
    LET here == path \o e.partial
        own == IF IsSome(e.value) THEN {<<here, e.value[1]>>} ELSE {}
        used == {i \in NibbleIx : IsSome(e.children[i])}
    IN CASE e.type = "Empty" -> Walked({}, {}, FALSE)
         [] e.type = "Leaf" -> Walked(own, {}, FALSE)
         [] e.type = "Extension" -> walk_child(d, e.child[1], here)
         [] e.type \in {"Branch", "NibbledBranch"} ->
              JoinWalks({Walked(own, {}, FALSE)} \cup
                        { walk_child(d, e.children[i][1], Append(here, i)) : i \in used })

walk(d, r) == walk_hash(d, r, <<>>)

\* the entries the backing store holds with a positive count
Held(d) == { k \in DOMAIN d : d[k] > 0 }

(***************************************************************************)
(* The state machine: a client calling the facade.                         *)
(***************************************************************************)
MaxOps == 4

Big == [i \in 1 .. HashLength |-> 48]
Keys == { <<>>, <<1>>, <<0, 1>>, <<1, 35>>, <<1, 52>> }
Values == { <<7>>, Big }

vars == << nodes, free_indices, db, root, root_handle, death_row, use_extension,
           status, mapping, inserted, history, last, nops, quiet >>

Cur == Trie(nodes, free_indices, db, root, root_handle, death_row, use_extension)

Call(op, key, value, ret, expect) ==
    [op |-> op, key |-> key, value |-> value, ret |-> ret, expect |-> expect]

\* the variables of the trie after a call that left it as t
Becomes(t, ret) ==
    /\ nodes' = t.nodes
    /\ free_indices' = t.free_indices
    /\ db' = t.db
    /\ root' = t.root
    /\ root_handle' = t.root_handle
    /\ death_row' = t.death_row
    /\ status' = IF ret.res = "Panic" THEN "aborted" ELSE status
    /\ UNCHANGED use_extension

\* quiet after one more call that is not an insert or a remove
Quieter(q, call) == IF Len(q) < 2 THEN Append(q, call) ELSE << q[2], call >>

Init ==
    /\ use_extension \in BOOLEAN
    /\ nodes = <<>>
    /\ free_indices = <<>>
    /\ db = EmptyDB
    /\ root = hashed_null_node
    /\ root_handle = HashHandle(hashed_null_node)
    /\ death_row = {}
    /\ status = "live"
    /\ mapping = [k \in Keys |-> None]
    /\ inserted = {}
    /\ history = "inserts"
    /\ last = Call("new", <<>>, <<>>, GetOk(None), None)
    /\ nops = 0
    /\ quiet = <<>>

Insert(k, v) ==
    /\ status = "live" /\ nops < MaxOps
    /\ LET Returned(r) ==
               /\ Becomes(r.t, r.ret)
               /\ last' = Call("insert", k, v, r.ret, mapping[k])
               /\ mapping' = IF r.ret.res = "Ok"
                             THEN [mapping EXCEPT
                                      ![k] = IF v = <<>> THEN None ELSE Some(v)]
                             ELSE mapping
               /\ inserted' = IF v # <<>> /\ r.ret.res = "Ok" THEN inserted \cup {k}
                               ELSE inserted
               /\ history' = IF history = "inserts" /\ v # <<>> /\ IsNone(mapping[k])
                                /\ r.ret.res = "Ok"
                             THEN "inserts" ELSE "other"
       IN Returned(insert(Cur, k, v))
    /\ nops' = nops + 1
    /\ quiet' = <<>>

Remove(k) ==
    /\ status = "live" /\ nops < MaxOps
    /\ LET Returned(r) ==
               /\ Becomes(r.t, r.ret)
               /\ last' = Call("remove", k, <<>>, r.ret, mapping[k])
               /\ mapping' = IF r.ret.res = "Ok" THEN [mapping EXCEPT ![k] = None]
                             ELSE mapping
       IN Returned(remove(Cur, k))
    /\ history' = "other"
    /\ nops' = nops + 1
    /\ quiet' = <<>>
    /\ UNCHANGED inserted

Get(k) ==
    /\ status = "live" /\ nops < MaxOps
    /\ last' = Call("get", k, <<>>, get(Cur, k), mapping[k])
    /\ UNCHANGED << nodes, free_indices, db, root, root_handle, death_row,
                    use_extension, status, mapping, inserted, history, quiet >>
    /\ nops' = nops + 1

Commit ==
    /\ status = "live" /\ nops < MaxOps
    /\ Becomes(commit(Cur), GetOk(None))
    /\ last' = Call("commit", <<>>, <<>>, GetOk(None), None)
    /\ history' = "other"
    /\ nops' = nops + 1
    /\ quiet' = Quieter(quiet, "commit")
    /\ UNCHANGED << mapping, inserted >>

Root ==
    /\ status = "live" /\ nops < MaxOps
    /\ Becomes(TrieMut_root(Cur), GetOk(None))
    /\ last' = Call("root", <<>>, <<>>, GetOk(None), None)
    /\ history' = IF history = "inserts" THEN "inserts_then_root" ELSE "other"
    /\ nops' = nops + 1
    /\ quiet' = Quieter(quiet, "commit")
    /\ UNCHANGED << mapping, inserted >>

\* the facade goes out of scope: Drop commits, the arena and death row are gone
Drop ==
    /\ status = "live"
    /\ LET Dropped(t) ==
               /\ db' = t.db
               /\ root' = t.root
               /\ root_handle' = HashHandle(t.root)
       IN Dropped(drop(Cur))
    /\ nodes' = <<>>
    /\ free_indices' = <<>>
    /\ death_row' = {}
    /\ status' = "dropped"
    /\ last' = Call("drop", <<>>, <<>>, GetOk(None), None)
    /\ history' = "other"
    /\ quiet' = Quieter(quiet, "commit")
    /\ UNCHANGED << use_extension, mapping, inserted, nops >>

\* a new facade over the backing store at rest, at the root it was left with;
\* when from_existing fails there is no facade
FromExisting ==
    /\ status = "dropped" /\ nops < MaxOps
    /\ LET Returned(r) ==
               /\ last' = Call("from_existing", <<>>, <<>>, r.ret, None)
               /\ IF r.ret.res = "Ok"
                  THEN /\ nodes' = r.t.nodes
                       /\ free_indices' = r.t.free_indices
                       /\ db' = r.t.db
                       /\ root' = r.t.root
                       /\ root_handle' = r.t.root_handle
                       /\ death_row' = r.t.death_row
                       /\ status' = "live"
                       /\ quiet' = Quieter(quiet, "open")
                  ELSE UNCHANGED << nodes, free_indices, db, root, root_handle,
                                    death_row, status, quiet >>
       IN Returned(from_existing(db, root, use_extension))
    /\ nops' = nops + 1
    /\ UNCHANGED << use_extension, mapping, inserted, history >>

Next ==
    \/ \E k \in Keys, v \in Values \cup {<<>>} : Insert(k, v)
    \/ \E k \in Keys : Remove(k)
    \/ \E k \in Keys : Get(k)
    \/ Commit
    \/ Root
    \/ Drop
    \/ FromExisting

Spec == Init /\ [][Next]_vars

(***************************************************************************)
(* A backing store at rest.  It starts empty; an earlier client fills it   *)
(* (new, an insert for every pair, drop), and a later client opens it with *)
(* from_existing.                                                          *)
(***************************************************************************)
RECURSIVE populate(_, _)
populate(t, pairs) ==
    IF pairs = <<>> THEN t
    ELSE populate(insert(t, pairs[1][1], pairs[1][2]).t, Tail(pairs))

\* the trie of the pairs, built from new over an empty store and committed by drop
StoredTrie(ext, pairs) == drop(populate(TrieDBMut_new(EmptyDB, ext), pairs))

MappingOf(pairs) ==
    [k \in Keys |->
        IF \E i \in DOMAIN pairs : pairs[i][1] = k
        THEN Some(pairs[CHOOSE i \in DOMAIN pairs : pairs[i][1] = k][2])
        ELSE None]

\* the lists of pairs the stores at rest were built from
Contents ==
    { << << <<>>, <<7>> >>, << <<1>>, <<7>> >> >>,
      << << <<1>>, <<7>> >>, << <<1, 35>>, <<7>> >>, << <<1, 52>>, <<7>> >> >>,
      << << <<1>>, Big >>, << <<1, 35>>, Big >> >>,
      << << <<1, 35>>, Big >>, << <<1, 52>>, Big >> >>,
      << << <<>>, <<7>> >>, << <<1, 35>>, Big >>, << <<1, 52>>, Big >> >> }

\* the variables when no facade is open over the store d with root variable r,
\* the store standing for the mapping m
\* the empty store at rest, before any client
InitExisting ==
    /\ use_extension \in BOOLEAN
    /\ nodes = <<>>
    /\ free_indices = <<>>
    /\ db = EmptyDB
    /\ root = hashed_null_node
    /\ root_handle = HashHandle(hashed_null_node)
    /\ death_row = {}
    /\ status = "dropped"
    /\ mapping = [k \in Keys |-> None]
    /\ inserted = {}
    /\ history = "other"
    /\ last = Call("drop", <<>>, <<>>, GetOk(None), None)
    /\ nops = 0
    /\ quiet = << "commit" >>

\* the store and root a client session left behind, with the mapping m
AtRest(d, r, m) ==
    /\ db' = d
    /\ root' = r
    /\ root_handle' = HashHandle(r)
    /\ mapping' = m
    /\ inserted' = {k \in Keys : IsSome(m[k])}
    /\ UNCHANGED << nodes, free_indices, death_row, use_extension, status, history,
                    last, nops, quiet >>

\* the earlier client's session over the empty store
Populate(pairs) ==
    /\ status = "dropped" /\ nops = 0 /\ db = EmptyDB /\ root = hashed_null_node
    /\ LET Left(s) == AtRest(s.db, s.root, MappingOf(pairs))
       IN Left(StoredTrie(use_extension, pairs))

NextExisting ==
    \/ Next
    \/ \E pairs \in Contents : Populate(pairs)

SpecExisting == InitExisting /\ [][NextExisting]_vars

(***************************************************************************)
(* A damaged store at rest: a store that has lost one of the nodes it      *)
(* held, or a store whose root entry holds bytes the codec rejects.        *)
(***************************************************************************)
\* bytes the codec rejects
Garbage == Enc("Corrupt", <<>>, empty_children, None, None)

\* the earlier client's session, after which the store loses one node
PopulateLosing(pairs) ==
    /\ status = "dropped" /\ nops = 0 /\ db = EmptyDB /\ root = hashed_null_node
    /\ LET Left(s) ==
               \E e \in Held(s.db) :
                   AtRest(db_set(s.db, e[1], e[2], 0), s.root, MappingOf(pairs))
       IN Left(StoredTrie(use_extension, pairs))

\* a root entry written with bytes the codec rejects
Corrupt ==
    /\ status = "dropped" /\ nops = 0 /\ db = EmptyDB /\ root = hashed_null_node
    /\ AtRest(db_insert(EmptyDB, EMPTY_PREFIX, Garbage), HashOf(Garbage), mapping)

NextDamaged ==
    \/ Next
    \/ \E pairs \in Contents : PopulateLosing(pairs)
    \/ Corrupt

SpecDamaged == InitExisting /\ [][NextDamaged]_vars

(***************************************************************************)
(* A store holding two byte-identical nodes at different paths: the keys   *)
(* 0x0123 and 0x0133 with one value end in the same leaf (partial [3])     *)
(* under the branch indices 2 and 3; 0x01 holds a value at the branch.     *)
(***************************************************************************)
TwinKeys == { <<1>>, <<1, 35>>, <<1, 51>> }

InitTwins ==
    /\ use_extension \in BOOLEAN
    /\ nodes = <<>>
    /\ free_indices = <<>>
    /\ db = EmptyDB
    /\ root = hashed_null_node
    /\ root_handle = HashHandle(hashed_null_node)
    /\ death_row = {}
    /\ status = "dropped"
    /\ mapping = [k \in TwinKeys |-> None]
    /\ inserted = {}
    /\ history = "other"
    /\ last = Call("drop", <<>>, <<>>, GetOk(None), None)
    /\ nops = 0
    /\ quiet = << "commit" >>

\* the earlier client's session: new, the three inserts, drop
PopulateTwins ==
    /\ status = "dropped" /\ nops = 0 /\ db = EmptyDB /\ root = hashed_null_node
    /\ LET Left(s) ==
               /\ db' = s.db
               /\ root' = s.root
               /\ root_handle' = HashHandle(s.root)
               /\ mapping' = [k \in TwinKeys |-> IF k = <<1>> THEN Some(<<7>>) ELSE Some(Big)]
               /\ inserted' = TwinKeys
               /\ UNCHANGED << nodes, free_indices, death_row, use_extension, status,
                               history, last, nops, quiet >>
       IN Left(StoredTrie(use_extension,
                          << << <<1>>, <<7>> >>, << <<1, 35>>, Big >>, << <<1, 51>>, Big >> >>))

NextTwins ==
    \/ \E k \in TwinKeys, v \in Values : Insert(k, v)
    \/ \E k \in TwinKeys : Remove(k)
    \/ \E k \in TwinKeys : Get(k)
    \/ Commit
    \/ FromExisting
    \/ PopulateTwins

SpecTwins == InitTwins /\ [][NextTwins]_vars

(***************************************************************************)
(* combine_key applied to node keys of every alignment.                    *)
(***************************************************************************)
MaxNibs == 2

\* node keys: the packed keys of the nibble sequences up to MaxNibs long, and
\* the keys of tests::combine_test, whose padding nibble is not zero
NodeKeys ==
    { Pack(n) : n \in UNION { [1 .. l -> {0, 1, 15}] : l \in 0 .. MaxNibs } }
        \cup { << o, b >> : o \in {0, 1}, b \in { <<18, 52>>, <<86, 120>> } }

CombineKey ==
    \E start \in NodeKeys, end \in NodeKeys :
        /\ last' = Call("combine_key", start, end, combine_key(start, end), None)
        /\ UNCHANGED << nodes, free_indices, db, root, root_handle, death_row,
                        use_extension, status, mapping, inserted, history, nops, quiet >>

SpecCombine == InitExisting /\ [][CombineKey]_vars

(***************************************************************************)
(* The claims.                                                             *)
(***************************************************************************)
Committed == last.op \in {"commit", "root", "drop"}

\* C1: for every key whose most recent mutation was insert(k, v) with non-empty v,
\* get(k) returns Some(v), staged or committed, in both layouts.
C1_GetReturnsInserted ==
    status = "live" =>
        \A k \in Keys : IsSome(mapping[k]) => get(Cur, k) = GetOk(mapping[k])

\* C2: for every key whose most recent mutation was remove(k) of a previously
\* inserted key, get(k) returns None, before and after commit.
C2_GetReturnsNoneAfterRemove ==
    status = "live" =>
        \A k \in inserted : IsNone(mapping[k]) => get(Cur, k) = GetOk(None)

\* C3: after inserting pairs with distinct keys and non-empty values one by one into
\* a trie created with new, root() is the reference trie root of the set of pairs.
C3_RootIsReferenceRoot ==
    history = "inserts_then_root" =>
        root = reference_trie_root(mapping, use_extension)

\* three pairs, one of them hashed on its own, were inserted and root() was called
C3_Witness ==
    /\ history = "inserts_then_root"
    /\ Cardinality({k \in Keys : IsSome(mapping[k])}) = 3
    /\ Cardinality(Held(db)) >= 2

\* C4: the committed root depends only on the final mapping, not on the history of
\* inserts, removes and commits: it is the root the insert-only history of the
\* mapping gives (by C3, the reference root of the mapping).
C4_RootDependsOnMappingOnly ==
    Committed =>
        root = reference_trie_root(mapping, use_extension)

\* C5: after every commit no hash reference reachable from the new root dangles.
C5_NoDanglingReference ==
    Committed => ~walk(db, root).dangling

\* C6: after each commit the entries the backing store holds with a positive count
\* are exactly the hashed nodes reachable from the new root, and the death row is
\* empty.
C6_StoreIsExactlyReachable ==
    Committed =>
        /\ Held(db) = walk(db, root).hashed
        /\ death_row = {}

\* C7: after the facade is dropped, the trie read from the backing store at root
\* holds exactly the pairs mapped at drop time.
C7_DropCommits ==
    status = "dropped" =>
        /\ ~walk(db, root).dangling
        /\ walk(db, root).pairs = PairsOf(mapping)
        /\ \A k \in Keys : look_up(db, root, NibbleSlice_new(k)) = GetOk(mapping[k])

C9_ReturnsOldValue ==
    ((last.op = "insert" /\ last.value # <<>>) \/ last.op = "remove") =>
        last.ret = GetOk(last.expect)

\* what a client can observe of a call's outcome: its result, the result of get for
\* every key, and the root a commit then gives
Observed(r) ==
    IF r.ret.res = "Panic" THEN << r.ret >>
    ELSE << r.ret, [k \in Keys |-> get(r.t, k)], commit(r.t).root >>

C11_ReinsertKeepsRoot ==
    status = "live" =>
        \A k \in Keys :
            IsSome(mapping[k]) =>
                LET a == insert(Cur, k, mapping[k][1])
                IN /\ a.ret = GetOk(mapping[k])
                   /\ commit(a.t).root = commit(Cur).root

\* C12: whenever the trie maps no key, root() is the hashed null node, and after
\* that commit the backing store holds none of the nodes the trie had inserted.
C12_EmptyTrieIsNullRoot ==
    (Committed /\ \A k \in Keys : IsNone(mapping[k])) =>
        /\ root = hashed_null_node
        /\ Held(db) = {}

\* C13: is_empty() returns true exactly when no key is currently mapped.
C13_IsEmptyIffNoKey ==
    status = "live" =>
        (is_empty(Cur) <=> \A k \in Keys : IsNone(mapping[k]))

\* C14: commit is idempotent: a commit (explicit, through root(), or on drop) that
\* follows a commit with no insert or remove in between changes neither the root
\* nor the backing store.
C14_CommitIdempotent ==
    [][(status = "live" /\ quiet # <<>> /\ quiet[Len(quiet)] = "commit"
        /\ last'.op \in {"commit", "root", "drop"})
       => (db' = db /\ root' = root)]_vars

\* two commits were made in a row over a trie that holds nodes
C14_Witness ==
    /\ status = "live"
    /\ quiet = << "commit", "commit" >>
    /\ Held(db) # {}

\* C15: a trie opened with from_existing(db, r) and committed or dropped without
\* any insert or remove leaves r and the backing store unchanged.
C15_OpenCommitChangesNothing ==
    [][(\/ last'.op = "from_existing"
        \/ /\ status = "live" /\ quiet # <<>> /\ quiet[Len(quiet)] = "open"
           /\ last'.op \in {"commit", "root", "drop"})
       => (db' = db /\ root' = root)]_vars

\* a store that holds a trie was opened with from_existing and then committed
C15_Witness ==
    /\ quiet = << "open", "commit" >>
    /\ Held(db) # {}
    /\ \E k \in Keys : IsSome(mapping[k])

\* C16: commit does not change the mapping: for every key, get right after a commit
\* returns what get returned right before it.
C16_CommitKeepsGets ==
    status = "live" =>
        \A k \in Keys : get(commit(Cur), k) = get(Cur, k)


\* C17: from_existing fails with InvalidStateRoot carrying the given root
\* exactly when the store does not contain that root under the empty prefix,
\* and then no trie is opened and neither the root nor the store changes;
\* otherwise it opens a trie whose root handle is Hash(root), with no node in
\* memory and an empty death row, the root and the store being unchanged.
C17_FromExistingChecksRoot ==
    [][last'.op = "from_existing" =>
         /\ db' = db /\ root' = root
         /\ IF db_contains(db, root, EMPTY_PREFIX)
            THEN /\ last'.ret = GetOk(None)
                 /\ status' = "live"
                 /\ root_handle' = HashHandle(root)
                 /\ nodes' = <<>> /\ free_indices' = <<>> /\ death_row' = {}
            ELSE /\ last'.ret = GetErrAt("InvalidStateRoot", root)
                 /\ status' = "dropped"
                 /\ UNCHANGED << nodes, free_indices, root_handle, death_row >>]_vars

C17_Witness ==
    /\ last.op = "from_existing" /\ last.ret = GetErrAt("InvalidStateRoot", root)
    /\ status = "dropped" /\ Held(db) # {}

C19_FailedCallChangesNothing ==
    status = "live" =>
        \A k \in Keys :
            LET Intact(a) ==
                    a.ret.res \in {"IncompleteDatabase", "InvalidStateRoot", "DecoderError"} =>
                        /\ a.t.root_handle = root_handle
                        /\ a.t.death_row = death_row
                        /\ a.t.db = db /\ a.t.root = root
                        /\ \A k2 \in Keys : get(a.t, k2) = get(Cur, k2)
                        /\ commit(a.t).root = commit(Cur).root
                        /\ commit(a.t).db = commit(Cur).db
            IN /\ Intact(remove(Cur, k))
               /\ \A v \in Values : Intact(insert(Cur, k, v))

\* C20: when the bytes of a node that insert or remove loads are rejected by
\* the codec, the call fails with the codec's error: a key whose path in the
\* store runs into undecodable bytes makes both calls return DecoderError.
C20_DecodeErrorPropagates ==
    (status = "live" /\ root_handle.tag = "Hash") =>
        \A k \in Keys :
            look_up(db, root, NibbleSlice_new(k)).res = "DecoderError" =>
                /\ remove(Cur, k).ret.res = "DecoderError"
                /\ \A v \in Values : insert(Cur, k, v).ret.res = "DecoderError"

\* C21: combine_key(start, end) yields the key whose nibbles are the nibbles
\* of start followed by the nibbles of end, at offset
\* (start.offset + end.offset) mod 2, for both offsets of either key and every
\* length, an empty start and a single-nibble end included.
C21_CombineKeyConcatenates ==
    last.op = "combine_key" =>
        /\ last.ret[1] = (last.key[1] + last.value[1]) % NIBBLE_PER_BYTE
        /\ Nibs(from_stored(last.ret))
              = Nibs(from_stored(last.key)) \o Nibs(from_stored(last.value))

\* an empty start combined with a single-nibble end, as fix does
C21_Witness ==
    /\ last.op = "combine_key" /\ last.key = EmptyKey
    /\ last.value = << 1, <<15>> >> /\ last.ret = << 1, <<15>> >>

\* C22: remove(k) of a key that is not mapped returns None and leaves the
\* answer of get unchanged for every key, in both layouts, the empty key and
\* strict prefixes of mapped keys included.
C22_RemoveAbsentIsNoOp ==
    status = "live" =>
        \A k \in Keys :
            IsNone(mapping[k]) =>
                LET NoOp(a) == /\ a.ret = GetOk(None)
                               /\ \A k2 \in Keys : get(a.t, k2) = get(Cur, k2)
                IN NoOp(remove(Cur, k))

\* C23: the lookup in memory at a NibbledBranch misses when the remaining key
\* does not start with the node's partial key; otherwise, past the partial
\* key, it returns the node's value if nothing remains, or follows the child
\* at the next remaining nibble, advancing by one more.
C23_LookupAtNibbledBranch ==
    status = "live" =>
        \A i \in DOMAIN nodes, k \in Keys :
            \A o \in 0 .. (Len(k) * NIBBLE_PER_BYTE) :
                LET node == storage_index(Cur, i)
                    slice == from_stored(node.key)
                    partial == mid(NibbleSlice_new(k), o)
                    n == ns_len(slice)
                IN node.type = "NibbledBranch" =>
                       lookup(Cur, partial, InMemory(i))
                         = IF ~starts_with(partial, slice) THEN GetOk(None)
                           ELSE IF ns_len(partial) = n THEN GetOk(node.value)
                           ELSE IF IsSome(node.children[at(partial, n)])
                           THEN lookup(Cur, mid(partial, n + 1),
                                       node.children[at(partial, n)][1])
                           ELSE GetOk(None)

\* C24: when an insert or remove replaces or deletes a Cached node, the
\* death-row entry it records is the node's hash with the prefix under which
\* the node was loaded and under which commit stored it: every entry a
\* successful call adds to the death row is an entry the store contains.
C24_DeathRowPrefixIsNodePath ==
    status = "live" =>
        \A k \in Keys :
            LET Recorded(a) ==
                    a.ret.res = "Ok" =>
                        \A e \in a.t.death_row \ death_row : db_contains(db, e[1], e[2])
            IN /\ Recorded(remove(Cur, k))
               /\ \A v \in Values : Recorded(insert(Cur, k, v))


\* C25: over a store just opened, removing a stored key succeeds, and every
\* node off the removed key's path that the removal schedules for deletion (a
\* child that fix merged into its collapsing parent) is recorded under the
\* prefix the store holds it under, its true path
C25_FixChildPrefixIsChildPath ==
    (status = "live" /\ last.op = "from_existing") =>
        \A k \in Keys :
            IsSome(mapping[k]) =>
                LET OffPath(h) ==
                        \A e \in Held(db) :
                            e[1] = h =>
                                LET p == PrefixNibs(e[2])
                                IN ~(/\ Len(p) <= Len(KeyNibs(k))
                                     /\ p = SubSeq(KeyNibs(k), 1, Len(p)))
                    Collapsed(a) ==
                        /\ a.ret.res = "Ok"
                        /\ \A e \in a.t.death_row \ death_row :
                               OffPath(e[1]) => db_contains(db, e[1], e[2])
                IN Collapsed(remove(Cur, k))


\* C26: a commit writes every node it re-encodes under the prefix that stands
\* for the node's nibble path from the new root (the root itself under
\* EMPTY_PREFIX), so a walk from the new root fetches each written node under
\* the prefix it was written with, and over a committed store without
\* dangling references no later insert or remove misses a node
C26_CommitPrefixIsNodePath ==
    status = "live" =>
        LET Written(c, d0) ==
                { e \in DOMAIN c.db : c.db[e] > db_rc(d0, e[1], e[2]) }
            Loadable(c, w) ==
                /\ Written(c, drain_death_row(db, death_row)) \subseteq w.hashed
                /\ root_handle.tag = "InMemory" /\ c.root_handle.tag = "Hash"
                       /\ c.root # hashed_null_node
                       => << c.root, EMPTY_PREFIX >>
                              \in Written(c, drain_death_row(db, death_row))
                /\ ~w.dangling =>
                       \A k \in Keys :
                           /\ remove(c, k).ret.res # "IncompleteDatabase"
                           /\ \A v \in Values :
                                  insert(c, k, v).ret.res # "IncompleteDatabase"
            Stored(c) == Loadable(c, walk(c.db, c.root))
        IN Stored(commit(Cur))


C26_Witness ==
    /\ status = "live"
    /\ last.op = "commit"
    /\ \E e \in walk(db, root).hashed :
           /\ e[2][2][1] = 1
           /\ \E f \in walk(db, root).hashed : Len(f[2][1]) = 1 /\ f[2][2][1] = 0


\* C27: of the nodes a commit re-encodes, one below the root is written to the
\* store only if its encoding is at least HashLength bytes long and is then
\* referenced by hash, a shorter one is embedded in its parent as
\* Inline(bytes, len); a Cached child is referenced by the hash it has and is
\* not written; the root is written whatever its length
C27_InlineOrHashByLength ==
    status = "live" =>
        LET Written(c, d0) ==
                { e \in DOMAIN c.db : c.db[e] > db_rc(d0, e[1], e[2]) }
            Refs(e) ==
                { e.children[i][1] : i \in { j \in NibbleIx : IsSome(e.children[j]) } }
                    \cup (IF IsSome(e.child) THEN { e.child[1] } ELSE {})
            Inlined(e) == { cr.data[1] : cr \in { x \in Refs(e) : x.tag = "Inline" } }
            Encoded(e) == {e} \cup Inlined(e) \cup UNION { Inlined(f) : f \in Inlined(e) }
            ByLength(c, w) ==
                /\ \A e \in w :
                       /\ e = << c.root, EMPTY_PREFIX >> \/ EncodedLen(e[1][1]) >= HashLength
                       /\ \A f \in Encoded(e[1][1]) : \A cr \in Refs(f) :
                              IF cr.tag = "Inline"
                              THEN /\ cr.len = EncodedLen(cr.data[1])
                                   /\ cr.len < HashLength
                              ELSE EncodedLen(cr.data[1]) >= HashLength
                /\ root_handle.tag = "InMemory" /\ c.root_handle.tag = "Hash"
                       /\ c.root # hashed_null_node
                       => << c.root, EMPTY_PREFIX >> \in w
                /\ \A i \in 1 .. Len(nodes) :
                       nodes[i].tag = "Cached" /\ root_handle # InMemory(i)
                           => \A e \in w : e[1] # nodes[i].hash
        IN ByLength(commit(Cur), Written(commit(Cur), drain_death_row(db, death_row)))


C27_Witness ==
    /\ status = "live"
    /\ root_handle.tag = "InMemory"
    /\ LET Refs(e) ==
               { e.children[i][1] : i \in { j \in NibbleIx : IsSome(e.children[j]) } }
                   \cup (IF IsSome(e.child) THEN { e.child[1] } ELSE {})
           Staged(c, w) ==
               /\ \E e \in w : e # << c.root, EMPTY_PREFIX >>
               /\ \E e \in w : \E cr \in Refs(e[1][1]) : cr.tag = "Inline"
               /\ \E i \in 1 .. Len(nodes) :
                      /\ nodes[i].tag = "Cached"
                      /\ root_handle # InMemory(i)
                      /\ \E e \in w : \E cr \in Refs(e[1][1]) :
                             cr.tag = "Hash" /\ cr.data = nodes[i].hash
       IN Staged(commit(Cur),
                 { e \in DOMAIN commit(Cur).db :
                       commit(Cur).db[e] > db_rc(drain_death_row(db, death_row), e[1], e[2]) })


C29_StructuralInvariants ==
    status = "live" =>
        LET NodeOf(r) == IF r.tag = "InMemory" THEN nodes[r.idx].node
                         ELSE IF r.tag = "Inline" THEN r.data[1]
                         ELSE IF "idx" \in DOMAIN r THEN r.hash[1]
                         ELSE r.data[1]
            Used(n) == { i \in NibbleIx : IsSome(n.children[i]) }
            Kids(n) == { n.children[i][1] : i \in Used(n) }
            PLen(n) == IF "key" \in DOMAIN n THEN ns_len(from_stored(n.key))
                       ELSE Len(n.partial)
            RECURSIVE Wf(_, _)
            Wf(r, is_root) ==
                LET n == NodeOf(r)
                IN CASE n.type = "Empty" -> is_root
                     [] n.type = "Leaf" -> TRUE
                     [] n.type = "Extension" ->
                          /\ PLen(n) > 0
                          /\ NodeOf(n.child[1]).type = "Branch"
                          /\ Wf(n.child[1], FALSE)
                     [] n.type \in {"Branch", "NibbledBranch"} ->
                          /\ \/ Cardinality(Used(n)) >= 2
                             \/ Cardinality(Used(n)) >= 1 /\ IsSome(n.value)
                          /\ \A k \in Kids(n) : Wf(k, FALSE)
                     [] OTHER -> FALSE
        IN Wf(root_handle, TRUE)


C29_Witness ==
    /\ status = "live"
    /\ use_extension
    /\ last.op = "remove"
    /\ IsSome(last.ret.val)
    /\ { k \in Keys : IsSome(mapping[k]) } = { <<1, 35>>, <<1, 52>> }
    /\ root_handle.tag = "InMemory"
    /\ nodes[root_handle.idx].node.type = "Extension"
    /\ Nibs(from_stored(nodes[root_handle.idx].node.key)) = <<0, 1>>


\* C30: the nodes of the arena and of the backing store, embedded ones
\* included, are of one layout: no NibbledBranch under the extension layout,
\* no Extension and no plain Branch under the extension-free layout
C30_LayoutsNeverMix ==
    LET Refs(e) ==
            { e.children[i][1] : i \in { j \in NibbleIx : IsSome(e.children[j]) } }
                \cup (IF IsSome(e.child) THEN { e.child[1] } ELSE {})
        Inlined(e) == { cr.data[1] : cr \in { x \in Refs(e) : x.tag = "Inline" } }
        Encoded(e) == {e} \cup Inlined(e) \cup UNION { Inlined(f) : f \in Inlined(e) }
        Types == { nodes[i].node.type : i \in 1 .. Len(nodes) }
                     \cup UNION { { f.type : f \in Encoded(e[1][1]) } : e \in DOMAIN db }
    IN IF use_extension THEN "NibbledBranch" \notin Types
       ELSE "Extension" \notin Types /\ "Branch" \notin Types

C30_Witness ==
    /\ status = "live"
    /\ ~use_extension
    /\ last.op = "remove"
    /\ IsSome(last.ret.val)
    /\ { k \in Keys : IsSome(mapping[k]) } = { <<1, 35>>, <<1, 52>> }
    /\ root_handle.tag = "InMemory"
    /\ nodes[root_handle.idx].node.type = "NibbledBranch"
    /\ Nibs(from_stored(nodes[root_handle.idx].node.key)) = <<0, 1>>
    /\ <<0, 1>> \in inserted


\* C31: no insert or remove on a live trie ends in one of fix's aborts: the
\* panic for a Branch or NibbledBranch with no child and no value, or the
\* unreachable arm for the sole child of a collapsing NibbledBranch being
\* neither a Leaf nor a NibbledBranch
C31_FixAbortsUnreachable ==
    /\ last.ret.res = "Panic" => IsNone(last.ret.val)
    /\ status = "live" =>
           \A k \in Keys :
               /\ remove(Cur, k).ret.res = "Panic" => IsNone(remove(Cur, k).ret.val)
               /\ \A v \in Values :
                      insert(Cur, k, v).ret.res = "Panic"
                          => IsNone(insert(Cur, k, v).ret.val)

C31_Witness ==
    /\ status = "live"
    /\ ~use_extension
    /\ last.op = "remove"
    /\ IsSome(last.ret.val)
    /\ last.key = <<1>>
    /\ inserted = { <<1>>, <<1, 35>> }
    /\ IsSome(mapping[<<1, 35>>])
    /\ root_handle.tag = "InMemory"
    /\ nodes[root_handle.idx].node.type = "Leaf"


\* C32: between the calls of a client the root handle is a Hash or the index
\* of an arena slot holding a New node, and after a commit it is the Hash of
\* the root variable
C32_RootHandleHashOrNew ==
    status = "live" =>
        /\ root_handle.tag = "Hash" \/ nodes[root_handle.idx].tag = "New"
        /\ last.op = "commit" => root_handle = HashHandle(root)


\* C33: every arena slot in use that is tagged Cached(node, h) holds a node
\* whose encoding, made as commit would make it, is the encoding h is the
\* hash of
C33_CachedMatchesStore ==
    status = "live" =>
        LET RECURSIVE Reenc(_)
            Ref(h) ==
                IF h.tag = "Hash" THEN ChildReference_Hash(h.hash)
                ELSE IF nodes[h.idx].tag = "Cached"
                THEN ChildReference_Hash(nodes[h.idx].hash)
                ELSE ref_child(Reenc(nodes[h.idx].node))
            Reenc(n) ==
                LET pr == Nibs(from_stored(n.key))
                    ch == [i \in NibbleIx |->
                              IF IsNone(n.children[i]) THEN None
                              ELSE Some(Ref(n.children[i][1]))]
                IN CASE n.type = "Empty" -> empty_node
                     [] n.type = "Leaf" -> leaf_node(pr, n.value[1])
                     [] n.type = "Extension" -> ext_node(pr, Ref(n.child[1]))
                     [] n.type = "Branch" -> branch_node(ch, n.value)
                     [] n.type = "NibbledBranch" -> branch_node_nibbled(pr, ch, n.value)
        IN \A i \in 1 .. Len(nodes) :
               nodes[i].tag = "Cached"
                   => HashOf(Reenc(nodes[i].node)) = nodes[i].hash


C33_Witness ==
    /\ status = "live"
    /\ last.op \in {"insert", "remove"}
    /\ root_handle.tag = "InMemory"
    /\ nodes[root_handle.idx].tag = "New"
    /\ \E i \in NibbleIx :
           LET c == nodes[root_handle.idx].node.children[i]
           IN /\ IsSome(c)
              /\ c[1].tag = "InMemory"
              /\ nodes[c[1].idx].tag = "Cached"


\* C34: no death-row entry names the hash of a Cached node in the arena
C34_DeathRowDisjointFromCached ==
    \A e \in death_row :
        \A i \in 1 .. Len(nodes) :
            nodes[i].tag = "Cached" => nodes[i].hash # e[1]


\* C35: between the calls of a client every arena index has one owner at
\* most: it is on the free list once, or one handle of the trie under the
\* root handle refers to it, never both
C35_ArenaSingleOwner ==
    status = "live" =>
        LET RECURSIVE Owners(_, _)
            Owners(h, j) ==
                IF h.tag # "InMemory" THEN 0
                ELSE LET n == nodes[h.idx].node
                     IN (IF h.idx = j THEN 1 ELSE 0)
                            + (IF IsSome(n.child) THEN Owners(n.child[1], j) ELSE 0)
                            + SumSeq([i \in 1 .. NIBBLE_LEN |->
                                         IF IsSome(n.children[i - 1])
                                         THEN Owners(n.children[i - 1][1], j) ELSE 0])
            Freed(j) == Cardinality({ i \in DOMAIN free_indices : free_indices[i] = j })
        IN \A j \in 1 .. Len(nodes) : Owners(root_handle, j) + Freed(j) <= 1


\* C36: between the calls of a client every arena slot that is not on the
\* free list is referred to by a handle of the trie under the root handle;
\* with a Hash for root handle every slot is on the free list
C36_NoSlotLeaked ==
    status = "live" =>
        LET RECURSIVE Held_by(_, _)
            Held_by(h, j) ==
                /\ h.tag = "InMemory"
                /\ \/ h.idx = j
                   \/ LET n == nodes[h.idx].node
                      IN \/ IsSome(n.child) /\ Held_by(n.child[1], j)
                         \/ \E i \in NibbleIx :
                                IsSome(n.children[i]) /\ Held_by(n.children[i][1], j)
        IN \A j \in 1 .. Len(nodes) :
               (\E i \in DOMAIN free_indices : free_indices[i] = j)
                   \/ Held_by(root_handle, j)


\* C37: over a committed trie (a Hash for root handle, an empty death row, a
\* store without dangling references) the insert of a pair the trie holds and
\* the remove of a key it does not hold return without an error, add nothing
\* to the death row, leave the nodes they loaded Cached (the root's slot, and
\* every slot but those of the inline nodes below a Cached node), and the commit
\* that follows leaves the store and the root as they are
C37_NoOpLeavesNothingStaged ==
    (status = "live" /\ root_handle.tag = "Hash" /\ death_row = {}
        /\ ~walk(db, root).dangling) =>
        LET Holds(u, i, j) ==
                \/ u.nodes[i].node.child = Some(InMemory(j))
                \/ \E x \in NibbleIx : u.nodes[i].node.children[x] = Some(InMemory(j))
            RECURSIVE UnderCached(_, _, _)
            UnderCached(u, j, d) ==
                \/ u.nodes[j].tag = "Cached"
                \/ /\ d > 0
                   /\ \E i \in 1 .. Len(u.nodes) :
                          Holds(u, i, j) /\ UnderCached(u, i, d - 1)
            InUse(u, j) == \A i \in DOMAIN u.free_indices : u.free_indices[i] # j
            Unchanged(r, c) ==
                /\ r.ret.res = "Ok"
                /\ r.t.death_row = {}
                /\ r.t.root_handle.tag = "InMemory"
                       => r.t.nodes[r.t.root_handle.idx].tag = "Cached"
                /\ \A j \in 1 .. Len(r.t.nodes) :
                       InUse(r.t, j)
                           => UnderCached(r.t, j, Len(r.t.nodes))
                /\ c.db = db
                /\ c.root = root
            NoOp(r) == Unchanged(r, commit(r.t))
        IN \A k \in Keys :
               /\ (\A p \in walk(db, root).pairs : p[1] # KeyNibs(k))
                      => NoOp(remove(Cur, k))
               /\ \A v \in Values :
                      << KeyNibs(k), v >> \in walk(db, root).pairs
                          => NoOp(insert(Cur, k, v))


\* C38: two keys whose leaves have the same encoding at two paths (the same
\* value under the same remaining nibble) are stored once per path: after a
\* commit that wrote the trie out (the root handle is a Hash) and leaves both
\* in the trie the store holds the leaf's hash once under each of the two
\* prefixes, and after such a commit every key of the trie, the twin of a
\* removed key included, is found with its value in a store that holds every
\* node below the root
C38_TwinLeavesStoredPerPath ==
    (status = "live" /\ last.op = "commit" /\ root_handle.tag = "Hash") =>
        LET Twins == { <<1, 35>>, <<1, 51>> }
            twin == HashOf(leaf_node(<<3>>, Big))
            At(k) == left(mid(NibbleSlice_new(k), 3))
            Kept == { k \in Twins : mapping[k] = Some(Big) }
        IN /\ ~walk(db, root).dangling
           /\ \A k \in DOMAIN mapping :
                  IsSome(mapping[k]) => get(Cur, k) = GetOk(mapping[k])
           /\ (Kept = Twins \/ IsSome(mapping[<<1>>])) =>
                  \A k \in Kept : db_rc(db, twin, At(k)) = 1

C38_Witness ==
    /\ status = "live"
    /\ last.op = "commit"
    /\ mapping[<<1>>] = Some(<<7>>)
    /\ mapping[<<1, 35>>] = None
    /\ mapping[<<1, 51>>] = Some(Big)
    /\ <<1, 35>> \in inserted
    /\ root_handle.tag = "Hash"
    /\ db_rc(db, HashOf(leaf_node(<<3>>, Big)), left(mid(NibbleSlice_new(<<1, 51>>), 3))) = 1
    /\ db_rc(db, HashOf(leaf_node(<<3>>, Big)), left(mid(NibbleSlice_new(<<1, 35>>), 3))) = 0
    /\ get(Cur, <<1, 51>>) = GetOk(Some(Big))


\* C39: between the calls of a client every insert, remove, get and commit
\* returns; the descent of insert and remove (the calls of insert_at and
\* remove_at, nested one in the other) enters each level with the key further
\* on than at the level above and never past its end, so it is no deeper than
\* the key's nibbles plus one; insert_inspector is entered three times in a
\* row at most on one node, and fix three times per level at most
C39_DescentBoundedByKey ==
    status = "live" =>
        LET IsAt(e) == e[1] \in {"insert_at", "remove_at"}
            IsFix(e) == e[1] = "fix"
            Returned(x) == x.res \in {"Ok", "Panic", "InvalidStateRoot", "IncompleteDatabase"}
            Bounded(r, k) ==
                LET trail == r.t.trail
                    descent == SelectSeq(trail, IsAt)
                IN /\ Returned(r.ret)
                   /\ Len(descent) >= 1
                   /\ Len(descent) <= 2 * Len(k) + 1
                   /\ \A i \in 1 .. Len(descent) : descent[i][2] <= 2 * Len(k)
                   /\ \A i \in 1 .. Len(descent) - 1 : descent[i][2] < descent[i + 1][2]
                   /\ \A i \in 1 .. Len(trail) - 3 :
                          \E j \in i .. i + 3 : trail[j][1] # "insert_inspector"
                   /\ Len(SelectSeq(trail, IsFix)) <= 3 * Len(descent)
        IN /\ commit(Cur).death_row = {}
           /\ \A k \in Keys :
                  /\ Returned(get(Cur, k))
                  /\ Bounded(remove(Cur, k), k)
                  /\ \A v \in Values : Bounded(insert(Cur, k, v), k)

C39_Witness ==
    /\ status = "live"
    /\ last.op = "insert"
    /\ LET IsAt(e) == e[1] \in {"insert_at", "remove_at"}
           IsFix(e) == e[1] = "fix"
           IsInspector(e) == e[1] = "insert_inspector"
       IN /\ \E k \in Keys :
                 /\ Len(k) >= 1
                 /\ Len(SelectSeq(remove(Cur, k).t.trail, IsAt)) = 2 * Len(k) + 1
          /\ \E k \in Keys :
                 Len(SelectSeq(remove(Cur, k).t.trail, IsFix)) >= 2
          /\ \E k \in Keys, v \in Values :
                 Len(SelectSeq(insert(Cur, k, v).t.trail, IsInspector)) >= 2

=============================================================================
